---- MODULE Spec2Model ----
(***************************************************************************)
(* A model of the submodule manager's core: the branch lifecycle           *)
(* operations of BranchService (single-repository and bulk forms), the     *)
(* commit-pinning synchronizer and the status resolver of SubmoduleService *)
(* and GitOperations.  Every git invocation (execGit) is one step: the     *)
(* git binary is the environment, so a command fails either because the    *)
(* repository state makes git refuse it or because the environment does    *)
(* (timeout, network, missing directory), the latter chosen freely.        *)
(***************************************************************************)
EXTENDS Integers, Sequences, FiniteSets, TLC

(***************************************************************************)
(* Bounds and finite domains                                               *)
(***************************************************************************)
\* longest list of paths handed to a bulk operation
MaxPaths == 2

\* number of repositories in the workspace
NumRepos == 2

\* repository paths a caller can name
RepoNames == <<"libA", "libB", "libC", "libD">>

Repos == {RepoNames[i] : i \in 1..NumRepos}

\* branch names that occur
BranchNames == {"main", "feat"}

\* the lists of at most n distinct elements of S
RECURSIVE ListsUpTo(_, _)
ListsUpTo(S, n) ==
  IF n = 0 THEN {<<>>}
  ELSE LET shorter == ListsUpTo(S, n - 1)
           longest == {t \in shorter : Len(t) = n - 1}
       IN  shorter \cup
           UNION {{Append(s, x) : x \in S \ {s[i] : i \in 1..Len(s)}} : s \in longest}

\* the lists of paths a caller passes to a bulk operation: the callers build them from
\* a Set of selected paths (Array.from(selectedSubmodules)) or from the picked items
\* of the repository list, so no path occurs twice
PathLists == ListsUpTo(Repos, MaxPaths)

VARIABLES
  \* ---- the git repositories (the environment the commands act on)
  repo,       \* repo[p] = [cur: checked-out branch, branches: local branches]
  repo0,      \* the repositories as they were when the running call began
  \* ---- one bulk branch operation of BranchService in flight
  call,       \* the parameters of the running bulk call
  pc,         \* the position of the running call: the git command it awaits next
  idx,        \* index into call.paths of the path being processed
  results,    \* the Map<string, CommandResult> being built, in insertion order
  cmdLog,     \* the git commands issued by the running call, in order
  curRead,    \* deleteBranch's local currentBranch
  \* ---- the commit-pinning synchronizer of SubmoduleService
  sub,          \* sub[p] = [head: checked-out commit, fault: what git refuses in p]
  recorded,     \* recorded[p]: the commit the parent's tree records for p, "" if none
  gitmodulesOk, \* whether .gitmodules can be read
  sRequested,   \* the submodulePaths argument of the running syncAllSubmodules
  sPc,          \* the position of the running syncAllSubmodules
  sList,        \* its local `submodules`: the paths getSubmodules returned
  sIdx,         \* index into sList
  sResults,     \* its result map, in insertion order
  sLog,         \* the git commands it issued in the submodules, in order
  sRun,         \* how many times the call has been started
  sFirst,       \* the results and the checked-out commits left by the first run
  \* ---- the status resolver (getSubmoduleInfo)
  iq,           \* what each git query of the resolver answers in the repository at hand
  iPc,          \* "ready" before the resolver is called, "returned" after
  iSvc,         \* which implementation ran: "SubmoduleService" or "GitOperations"
  iOut,         \* what the resolver handed to its caller
  \* ---- the enumeration of the submodules (getSubmodules)
  lConfig,      \* what 'git config --file .gitmodules --get-regexp path' answers
  lAns,         \* what the resolver's queries answer for the entry of each line
  lPc,          \* "ready", "loop" (lines being processed), "returned" or "idle"
  lIdx,         \* the line the loop is at
  lOut,         \* the descriptors pushed so far
  lThrew,       \* whether the call rejected
  \* ---- the branch lister (getBranches)
  bRepo,        \* the repository's local and remote branches, and what is checked out
  bAns,         \* which of the lister's git commands resolve
  bPc,          \* "ready" before the lister is called, "returned" after, or "idle"
  bSvc,         \* which implementation ran: "BranchService" or "GitOperations"
  bOut,         \* the descriptors returned, in order
  \* ---- any one operation of the services, seen as git commands inside try blocks
  oStack,       \* the running operation and the operations it called: <<[op, pos]>>
  oPc,          \* "ready", "running", "returned" or "idle"
  oThrew,       \* whether the operation rejected to its caller
  oRejected,    \* the ways git commands of the operation were rejected so far
  \* ---- the panel's message handlers
  hMsg,         \* the message each handler invocation was started with
  hPos,         \* the git command each invocation is at
  hState,       \* "free", "awaiting" (its git command is running) or "done"
  \* ---- the sidebar tree's submodule list and the create-branch command
  cGitmodules,  \* the submodule paths .gitmodules lists now, in file order
  cTree,        \* SubmoduleTreeProvider.submodules
  cPending,     \* the tree was told to refresh and has not queried git yet
  cPicker,      \* the repositories the create-branch command offers
  cAtPick,      \* the submodule paths .gitmodules listed when the command ran
  cPc,          \* "watching", "picked" (the command has built its list) or "idle"
  \* ---- the prefixes offered for a base branch
  pBase,        \* the base branch chosen, as its leading word, separator and rest
  pFlow,        \* the creation flow that offered the prefixes: "webview" or "wizard"
  pPrefixes,    \* the prefixes offered, in order
  pPc,          \* "ready" before the prefixes are computed, "offered" after, or "idle"
  \* ---- the construction of a branch name by a creation flow
  nFlow,        \* the flow the user is in: "webview", "wizard" or "command"
  nForm,        \* what the user entered: prefix, ticket, text, product, version
  nName,        \* the branch name the flow built
  nPc,          \* "ready", "preview", "issued", "rejected", "cancelled" or "idle"
  \* ---- the push step that follows a bulk creation
  uRepo,        \* the repositories: checked-out branch and local branches
  uResults,     \* the results of the bulk creation: path and success, in order
  uFlow,        \* the flow that ran the creation: "webview" or "wizard"
  uCall,        \* the repositories picked and the branch name created
  uPushed,      \* the pushes issued: path and branch pushed, in order
  uPc,          \* "ready", "created", "pushed" or "idle"
  \* ---- a deleteBranch and the checkouts of another handler in one repository
  rRepo,        \* the repository: checked-out branch and local branches
  rDelete,      \* the branch deleteBranch was asked to delete
  rPc,          \* deleteBranch's position: "ready", "revParse", "branchD", "returned", "idle"
  rRead,        \* deleteBranch's local currentBranch
  rAtIssue,     \* the branch checked out when 'branch -D' was issued, "" if it was not
  rSuccess,     \* the success field of deleteBranch's result
  rCheckouts,   \* the checkouts the other handler has run
  \* ---- the webview panel and its updates
  vCurrent,     \* SubmoduleManagerPanel.currentPanel: a panel or NoPanel
  vLive,        \* the webview panels created and not disposed
  vCreated,     \* how many panels were created
  vUpdates,     \* the _update calls in the order they started: panel, position, data read
  vRepo,        \* the state of the repositories, as a version number
  vShown,       \* the version of the data each panel shows
  vPc           \* "open" while the extension is in use, or "idle"

bulkVars == <<repo, repo0, call, pc, idx, results, cmdLog, curRead>>

syncVars == <<sub, recorded, gitmodulesOk, sRequested, sPc, sList, sIdx, sResults,
              sLog, sRun, sFirst>>

infoVars == <<iq, iPc, iSvc, iOut>>

listVars == <<lConfig, lAns, lPc, lIdx, lOut, lThrew>>

branchVars == <<bRepo, bAns, bPc, bSvc, bOut>>

opsVars == <<oStack, oPc, oThrew, oRejected>>

panelVars == <<hMsg, hPos, hState>>

cacheVars == <<cGitmodules, cTree, cPending, cPicker, cAtPick, cPc>>

prefixVars == <<pBase, pFlow, pPrefixes, pPc>>

nameVars == <<nFlow, nForm, nName, nPc>>

\* the components of the creation, deletion and panel flows
pushVars == <<uRepo, uResults, uFlow, uCall, uPushed, uPc>>

raceVars == <<rRepo, rDelete, rPc, rRead, rAtIssue, rSuccess, rCheckouts>>

viewVars == <<vCurrent, vLive, vCreated, vUpdates, vRepo, vShown, vPc>>

flowVars == <<nameVars, pushVars, raceVars, viewVars>>

\* the components of the services, the panel's handlers and the prefix table
coreVars ==
  <<bulkVars, syncVars, infoVars, listVars, branchVars, opsVars, panelVars, cacheVars,
    prefixVars>>

vars ==
  <<bulkVars, syncVars, infoVars, listVars, branchVars, opsVars, panelVars, cacheVars,
    prefixVars, flowVars>>

(***************************************************************************)
(* git, as far as the branch operations observe it                         *)
(***************************************************************************)
\* outcome of one git command: ok, the error text git (or execGit) reports, the new repository
GitOk(r)       == [ok |-> TRUE, err |-> "", repo |-> r]
GitFail(r, e)  == [ok |-> FALSE, err |-> e, repo |-> r]

\* git checkout <b>
GitCheckout(r, b, envOk) ==
  IF ~envOk THEN GitFail(r, "git: command failed")
  ELSE IF b \notin r.branches THEN GitFail(r, "pathspec did not match")
  ELSE GitOk([r EXCEPT !.cur = b])

\* git pull origin <b>
GitPull(r, b, envOk) ==
  IF ~envOk THEN GitFail(r, "pull: could not fetch or merge") ELSE GitOk(r)

\* git checkout -b <n>
GitCheckoutNew(r, n, envOk) ==
  IF ~envOk THEN GitFail(r, "git: command failed")
  ELSE IF n \in r.branches THEN GitFail(r, "branch already exists")
  ELSE GitOk([r EXCEPT !.cur = n, !.branches = @ \cup {n}])

\* git branch <n>
GitBranch(r, n, envOk) ==
  IF ~envOk THEN GitFail(r, "git: command failed")
  ELSE IF n \in r.branches THEN GitFail(r, "branch already exists")
  ELSE GitOk([r EXCEPT !.branches = @ \cup {n}])

\* git branch -D <n>
GitBranchDelete(r, n, envOk) ==
  IF ~envOk THEN GitFail(r, "git: command failed")
  ELSE IF n \notin r.branches THEN GitFail(r, "branch not found")
  ELSE IF n = r.cur THEN GitFail(r, "cannot delete checked out branch")
  ELSE GitOk([r EXCEPT !.branches = @ \ {n}])

\* git push origin --delete <n>
GitPushDelete(r, n, envOk) ==
  IF ~envOk THEN GitFail(r, "remote ref does not exist or push rejected") ELSE GitOk(r)

(***************************************************************************)
(* BranchService: results of the single-repository operations              *)
(***************************************************************************)
\* a CommandResult; the message is its fixed text plus the git error it embeds
CommandResult(success, text, detail) ==
  [success |-> success, text |-> text, detail |-> detail]

\* what a single-repository operation hands to its caller: a value, or an exception
Returns(value) == [threw |-> FALSE, value |-> value]
Throws(err)    == [threw |-> TRUE, value |-> CommandResult(FALSE, "", err)]

\* `await execGit(...)` inside a try block: control goes on when the command resolved,
\* to the catch block when it rejected
execGitResolved_Always(g) == TRUE

execGitResolved(g) == g.ok

\* variant of createBranch's catch block: the error is rethrown
createBranchCatch_Rethrow(err) == Throws(err)

\* createBranch, its catch block (commitService.ts:228-231)
createBranchCatch(err) ==
  Returns(CommandResult(FALSE, "Failed to create branch: ", err))

\* createBranch, its normal return (commitService.ts:227)
createBranchOk ==
  Returns(CommandResult(TRUE, "Branch created successfully", ""))

\* variant of the outer catch: the failure is reported as a success
deleteBranchCatch_AsSuccess(err) ==
  Returns(CommandResult(TRUE, "Branch deleted successfully", err))

\* deleteBranch, its outer catch block (commitService.ts:334-337)
deleteBranchCatch(err) ==
  Returns(CommandResult(FALSE, "Failed to delete branch: ", err))

\* deleteBranch, the guard's return (commitService.ts:313-315)
deleteBranchRefused ==
  Returns(CommandResult(FALSE, "Cannot delete the currently checked out branch", ""))

\* variant of the inner catch: the remote failure fails the whole deletion
deleteBranchRemoteCatch_AsFailure(err) ==
  Returns(CommandResult(FALSE, "Failed to delete branch: ", err))

\* deleteBranch, the inner catch around the remote delete (commitService.ts:324-330)
deleteBranchRemoteCatch(err) ==
  Returns(CommandResult(TRUE, "Local branch deleted, but failed to delete remote: ", err))

\* deleteBranch, its normal return (commitService.ts:333)
deleteBranchOk(deleteRemote) ==
  Returns(CommandResult(TRUE,
            IF deleteRemote THEN "Branch deleted successfully (local + remote)"
                            ELSE "Branch deleted successfully", ""))

\* variant of the guard: never refuses
IsCurrentBranch_Never(currentBranch, branchName) == FALSE

\* the guard of deleteBranch: is the branch to delete the checked-out one?
IsCurrentBranch(currentBranch, branchName) == currentBranch = branchName

(***************************************************************************)
(* The result map of a bulk operation: a JavaScript Map keeps its keys in  *)
(* insertion order, and set() on a present key replaces the value in place *)
(***************************************************************************)
MapHas(m, k) == \E i \in 1..Len(m) : m[i].path = k

MapSet(m, k, v) ==
  IF MapHas(m, k)
  THEN [i \in 1..Len(m) |-> IF m[i].path = k THEN [path |-> k, result |-> v] ELSE m[i]]
  ELSE Append(m, [path |-> k, result |-> v])

MapKeys(m) == [i \in 1..Len(m) |-> m[i].path]

MapGet(m, k) == (CHOOSE e \in {m[i] : i \in 1..Len(m)} : e.path = k).result

(***************************************************************************)
(* The bulk loop                                                           *)
(***************************************************************************)
NoCall ==
  [op |-> "none", paths |-> <<>>, branchName |-> "main", baseBranch |-> "",
   checkout |-> TRUE, deleteRemote |-> FALSE]

\* variant of the loop: from the last path to the first
CurPath_Reversed == call.paths[Len(call.paths) + 1 - idx]

\* the path the loop is at
CurPath == call.paths[idx]

\* the first git command of the single-repository operation
FirstPc(c) ==
  IF c.op = "delete" THEN "revParse"
  ELSE IF c.baseBranch # "" THEN "checkoutBase" ELSE "create"

\* the loop's position after the operation on path i returned
LoopNext(c, i) == IF i + 1 > Len(c.paths) THEN "done" ELSE FirstPc(c)

\* one git command is logged as issued
Issue(cmd, arg, g) ==
  cmdLog' = Append(cmdLog, [path |-> CurPath, idx |-> idx, cmd |-> cmd, arg |-> arg,
                            ok |-> g.ok, err |-> g.err, recorded |-> Len(results)])

\* variant of the loop body: only successful results are put into the map
RecordAndAdvance_DropFailed(outcome) ==
  /\ results' = IF outcome.value.success THEN MapSet(results, CurPath, outcome.value)
                                         ELSE results
  /\ idx' = idx + 1
  /\ pc' = LoopNext(call, idx)

\* `const result = await op(path, ...); results.set(path, result)` and the loop's step
RecordAndAdvance(outcome) ==
  IF outcome.threw
  THEN /\ pc' = "thrown"
       /\ UNCHANGED <<idx, results>>
  ELSE /\ results' = MapSet(results, CurPath, outcome.value)
       /\ idx' = idx + 1
       /\ pc' = LoopNext(call, idx)

\* createBranchAcrossSubmodules is called (commitService.ts:237-243)
createBranchAcrossSubmodules(paths, branchName, baseBranch, checkout) ==
  /\ pc = "idle"
  /\ call' = [op |-> "create", paths |-> paths, branchName |-> branchName,
              baseBranch |-> baseBranch, checkout |-> checkout, deleteRemote |-> FALSE]
  /\ idx' = 1
  /\ results' = <<>>
  /\ cmdLog' = <<>>
  /\ curRead' = ""
  /\ pc' = IF paths = <<>> THEN "done" ELSE FirstPc(call')
  /\ repo0' = repo
  /\ UNCHANGED repo

\* createBranch: git checkout <baseBranch> (commitService.ts:215-216)
createBranch_checkoutBase ==
  /\ pc = "checkoutBase"
  /\ \E envOk \in BOOLEAN :
       LET g == GitCheckout(repo[CurPath], call.baseBranch, envOk) IN
       /\ Issue("checkout", call.baseBranch, g)
       /\ repo' = [repo EXCEPT ![CurPath] = g.repo]
       /\ IF execGitResolved(g)
          THEN pc' = "pullBase" /\ UNCHANGED <<idx, results>>
          ELSE RecordAndAdvance(createBranchCatch(g.err))
  /\ UNCHANGED <<call, curRead, repo0>>

\* createBranch: git pull origin <baseBranch> (commitService.ts:217)
createBranch_pullBase ==
  /\ pc = "pullBase"
  /\ \E envOk \in BOOLEAN :
       LET g == GitPull(repo[CurPath], call.baseBranch, envOk) IN
       /\ Issue("pull", call.baseBranch, g)
       /\ repo' = [repo EXCEPT ![CurPath] = g.repo]
       /\ IF execGitResolved(g)
          THEN pc' = "create" /\ UNCHANGED <<idx, results>>
          ELSE RecordAndAdvance(createBranchCatch(g.err))
  /\ UNCHANGED <<call, curRead, repo0>>

\* createBranch: git checkout -b <name> or git branch <name> (commitService.ts:221-227)
createBranch_create ==
  /\ pc = "create"
  /\ \E envOk \in BOOLEAN :
       LET g == IF call.checkout
                THEN GitCheckoutNew(repo[CurPath], call.branchName, envOk)
                ELSE GitBranch(repo[CurPath], call.branchName, envOk) IN
       /\ Issue(IF call.checkout THEN "checkout -b" ELSE "branch", call.branchName, g)
       /\ repo' = [repo EXCEPT ![CurPath] = g.repo]
       /\ RecordAndAdvance(IF execGitResolved(g) THEN createBranchOk ELSE createBranchCatch(g.err))
  /\ UNCHANGED <<call, curRead, repo0>>

\* deleteBranchAcrossSubmodules is called (commitService.ts:343-348)
deleteBranchAcrossSubmodules(paths, branchName, deleteRemote) ==
  /\ pc = "idle"
  /\ call' = [op |-> "delete", paths |-> paths, branchName |-> branchName,
              baseBranch |-> "", checkout |-> FALSE, deleteRemote |-> deleteRemote]
  /\ idx' = 1
  /\ results' = <<>>
  /\ cmdLog' = <<>>
  /\ curRead' = ""
  /\ pc' = IF paths = <<>> THEN "done" ELSE FirstPc(call')
  /\ repo0' = repo
  /\ UNCHANGED repo

\* git rev-parse --abbrev-ref HEAD: the branch name, or "HEAD" when detached
GitCurrentBranch(r, envOk) ==
  IF ~envOk THEN [ok |-> FALSE, err |-> "not a git repository", repo |-> r, out |-> ""]
  ELSE [ok |-> TRUE, err |-> "", repo |-> r, out |-> r.cur]

\* deleteBranch: read the current branch and refuse to delete it (commitService.ts:312-315)
deleteBranch_revParse ==
  /\ pc = "revParse"
  /\ \E envOk \in BOOLEAN :
       LET g == GitCurrentBranch(repo[CurPath], envOk) IN
       /\ Issue("rev-parse", "HEAD", g)
       /\ curRead' = g.out
       /\ IF ~execGitResolved(g)
          THEN RecordAndAdvance(deleteBranchCatch(g.err))
          ELSE IF IsCurrentBranch(g.out, call.branchName)
          THEN RecordAndAdvance(deleteBranchRefused)
          ELSE pc' = "branchD" /\ UNCHANGED <<idx, results>>
  /\ UNCHANGED <<call, repo, repo0>>

\* deleteBranch: git branch -D <name> (commitService.ts:318-321, 333)
deleteBranch_branchD ==
  /\ pc = "branchD"
  /\ \E envOk \in BOOLEAN :
       LET g == GitBranchDelete(repo[CurPath], call.branchName, envOk) IN
       /\ Issue("branch -D", call.branchName, g)
       /\ repo' = [repo EXCEPT ![CurPath] = g.repo]
       /\ IF ~execGitResolved(g)
          THEN RecordAndAdvance(deleteBranchCatch(g.err))
          ELSE IF call.deleteRemote
          THEN pc' = "pushDelete" /\ UNCHANGED <<idx, results>>
          ELSE RecordAndAdvance(deleteBranchOk(FALSE))
  /\ UNCHANGED <<call, curRead, repo0>>

\* deleteBranch: git push origin --delete <name> (commitService.ts:322-333)
deleteBranch_pushDelete ==
  /\ pc = "pushDelete"
  /\ \E envOk \in BOOLEAN :
       LET g == GitPushDelete(repo[CurPath], call.branchName, envOk) IN
       /\ Issue("push --delete", call.branchName, g)
       /\ repo' = [repo EXCEPT ![CurPath] = g.repo]
       /\ RecordAndAdvance(IF execGitResolved(g) THEN deleteBranchOk(TRUE)
                                   ELSE deleteBranchRemoteCatch(g.err))
  /\ UNCHANGED <<call, curRead, repo0>>

\* the bulk call's promise settles and the caller takes the map
bulkReturn ==
  /\ pc \in {"done", "thrown"}
  /\ pc' = "idle"
  /\ call' = NoCall
  /\ idx' = 1
  /\ results' = <<>>
  /\ cmdLog' = <<>>
  /\ curRead' = ""
  /\ repo0' = repo
  /\ UNCHANGED repo

\* the states a repository can be in: on one of its branches, or detached
RepoStates ==
  {r \in [cur : BranchNames \cup {"HEAD"}, branches : SUBSET BranchNames] :
     r.branches # {} /\ (r.cur = "HEAD" \/ r.cur \in r.branches)}

\* the states a repository starts in: it has its default branch
InitialRepoStates == {r \in RepoStates : "main" \in r.branches}

BulkInit ==
  /\ repo \in [Repos -> InitialRepoStates]
  /\ repo0 = repo
  /\ call = NoCall
  /\ pc = "idle"
  /\ idx = 1
  /\ results = <<>>
  /\ cmdLog = <<>>
  /\ curRead = ""

(***************************************************************************)
(* The status resolver: getSubmoduleInfo of SubmoduleService and of        *)
(* GitOperations, as a function of what the git queries answer             *)
(***************************************************************************)
\* a commit hash as rev-parse HEAD prints it: a sequence of hex digits
FullHash == <<1, 2, 3, 4, 5, 6, 7, 8, 9, 10>>

\* currentCommit.substring(0, 8)
ShortCommitLen == 8

substring(str, from, to) == SubSeq(str, from + 1, IF to > Len(str) THEN Len(str) ELSE to)

\* a query's answer: the command resolved with `out`, or rejected
Answered(out) == [ok |-> TRUE, out |-> out]
Rejected == [ok |-> FALSE, out |-> ""]

\* a field of the rev-list --count output: a decimal number, or other text
Num(n) == [num |-> TRUE, n |-> n]
NotNum == [num |-> FALSE, n |-> 0]

\* parseInt(str, 10) || 0
parseIntOr0(field) == IF field.num THEN field.n ELSE 0

\* what the queries of one resolution can answer
InfoQueries ==
  [gitDir : {Rejected, Answered(".git")},
   url    : {Rejected, Answered("git@host:lib.git")},
   branch : {Rejected, Answered("develop")},
   head   : {Rejected, Answered(FullHash)},
   abbrev : {Rejected, Answered("HEAD"), Answered("main")},
   status : {Rejected, Answered(""), Answered("M file")},
   track  : {Rejected, Answered(<<Num(0), Num(0)>>), Answered(<<Num(2), Num(1)>>),
             Answered(<<NotNum, NotNum>>)}]

\* the resolver's locals before its try block (gitCommandService.ts:264-269)
InfoLocals ==
  [currentCommit |-> <<>>, currentBranch |-> "", status |-> "unknown",
   hasChanges |-> FALSE, ahead |-> 0, behind |-> 0]

\* the resolver's outer catch block (gitCommandService.ts:318-320)
infoCatch_Rethrow(l) == [threw |-> TRUE, locals |-> l]

infoCatch(l) == [threw |-> FALSE, locals |-> [l EXCEPT !.status = "uninitialized"]]

\* the branch step (gitCommandService.ts:276-286): detached when the name is HEAD or
\* the query fails; SubmoduleService blanks the name, GitOperations keeps it
infoBranchStep(l, q, blankDetached) ==
  IF ~q.abbrev.ok
  THEN [l EXCEPT !.currentBranch = IF blankDetached THEN "" ELSE l.currentBranch,
                 !.status = "detached"]
  ELSE IF q.abbrev.out = "HEAD"
  THEN [l EXCEPT !.currentBranch = IF blankDetached THEN "" ELSE "HEAD",
                 !.status = "detached"]
  ELSE [l EXCEPT !.currentBranch = q.abbrev.out]

\* the status step (gitCommandService.ts:289-301), given the porcelain output
infoStatusStep_DetachedFirst(l, out) ==
  LET dirty == out # "" IN
  [l EXCEPT !.hasChanges = dirty,
            !.status = IF l.status = "detached" THEN "detached"
                       ELSE IF dirty THEN "modified" ELSE "clean"]

infoStatusStep(l, out) ==
  LET dirty == out # "" IN
  [l EXCEPT !.hasChanges = dirty,
            !.status = IF dirty THEN "modified"
                       ELSE IF l.status # "detached" THEN "clean" ELSE l.status]

\* the ahead/behind step (gitCommandService.ts:305-317)
infoTrackStep_NoGuard(l, q) ==
  IF q.track.ok
  THEN [l EXCEPT !.behind = parseIntOr0(q.track.out[1]),
                 !.ahead = parseIntOr0(q.track.out[2])]
  ELSE l

infoTrackStep(l, q) ==
  IF l.currentBranch # "" /\ l.currentBranch # "HEAD" /\ q.track.ok
  THEN [l EXCEPT !.behind = parseIntOr0(q.track.out[1]),
                 !.ahead = parseIntOr0(q.track.out[2])]
  ELSE l

\* the try block of the resolver (gitCommandService.ts:271-320)
infoTry(q, blankDetached) ==
  IF ~q.head.ok THEN infoCatch(InfoLocals)
  ELSE LET l1 == [InfoLocals EXCEPT !.currentCommit = q.head.out]
           l2 == infoBranchStep(l1, q, blankDetached)
       IN  IF ~q.status.ok THEN infoCatch(l2)
           ELSE [threw |-> FALSE, locals |-> infoTrackStep(infoStatusStep(l2, q.status.out), q)]

\* the returned SubmoduleInfo (gitCommandService.ts:247-261, 322-334)
infoResult(q, t) ==
  [threw |-> t.threw,
   url |-> IF q.url.ok THEN q.url.out ELSE "",
   branch |-> IF q.branch.ok THEN q.branch.out ELSE "main",
   currentCommit |-> substring(t.locals.currentCommit, 0, ShortCommitLen),
   currentBranch |-> t.locals.currentBranch,
   status |-> t.locals.status,
   hasChanges |-> t.locals.hasChanges,
   ahead |-> t.locals.ahead,
   behind |-> t.locals.behind,
   isNull |-> FALSE]

\* SubmoduleService.getSubmoduleInfo (gitCommandService.ts:244-335)
getSubmoduleInfo(q) == infoResult(q, infoTry(q, TRUE))

\* GitOperations.getSubmoduleInfo (gitOperations.ts:138-220)
gitOpsGetSubmoduleInfo(q) == infoResult(q, infoTry(q, FALSE))

NoInfo == [threw |-> FALSE, url |-> "", branch |-> "", currentCommit |-> <<>>,
           currentBranch |-> "", status |-> "unknown", hasChanges |-> FALSE,
           ahead |-> 0, behind |-> 0, isNull |-> FALSE]

\* getParentRepoInfo returns null when the workspace is no git repository
\* (gitCommandService.ts:110, 192-194)
NullInfo == [NoInfo EXCEPT !.isNull = TRUE]

\* SubmoduleService.getParentRepoInfo (gitCommandService.ts:105-195): every query has
\* its own try block, so a failed HEAD or status read only leaves the default
getParentRepoInfo(q) ==
  IF ~q.gitDir.ok THEN NullInfo
  ELSE LET l1 == [InfoLocals EXCEPT !.currentCommit = IF q.head.ok THEN q.head.out ELSE <<>>]
           l2 == infoBranchStep(l1, q, TRUE)
           l3 == infoStatusStep(l2, IF q.status.ok THEN q.status.out ELSE "")
           l4 == infoTrackStep(l3, q)
       IN  [infoResult(q, [threw |-> FALSE, locals |-> l4]) EXCEPT
              !.url = "",
              !.branch = IF l4.currentBranch # "" THEN l4.currentBranch ELSE "main"]

\* the service's resolver is called on the repository
resolve_SubmoduleService ==
  /\ iPc = "ready"
  /\ iOut' = getSubmoduleInfo(iq)
  /\ iSvc' = "SubmoduleService"
  /\ iPc' = "returned"
  /\ UNCHANGED iq

\* the legacy GitOperations resolver is called on the repository
resolve_GitOperations ==
  /\ iPc = "ready"
  /\ iOut' = gitOpsGetSubmoduleInfo(iq)
  /\ iSvc' = "GitOperations"
  /\ iPc' = "returned"
  /\ UNCHANGED iq

\* the resolver of the parent repository is called on the workspace root
resolve_ParentRepo ==
  /\ iPc = "ready"
  /\ iOut' = getParentRepoInfo(iq)
  /\ iSvc' = "ParentRepo"
  /\ iPc' = "returned"
  /\ UNCHANGED iq

InfoIdle ==
  /\ iq = [gitDir |-> Rejected, url |-> Rejected, branch |-> Rejected, head |-> Rejected, abbrev |-> Rejected,
           status |-> Rejected, track |-> Rejected]
  /\ iPc = "idle"
  /\ iSvc = ""
  /\ iOut = NoInfo

InfoInit ==
  /\ iq \in InfoQueries
  /\ iPc = "ready"
  /\ iSvc = ""
  /\ iOut = NoInfo

\* everything outside the running operation stays as it is
BulkFrame ==
  UNCHANGED <<syncVars, infoVars, listVars, branchVars, opsVars, panelVars, cacheVars,
              prefixVars,
              flowVars>>

SyncFrame ==
  UNCHANGED <<bulkVars, infoVars, listVars, branchVars, opsVars, panelVars, cacheVars,
              prefixVars,
              flowVars>>

InfoFrame ==
  UNCHANGED <<bulkVars, syncVars, listVars, branchVars, opsVars, panelVars, cacheVars,
              prefixVars,
              flowVars>>

ListFrame ==
  UNCHANGED <<bulkVars, syncVars, infoVars, branchVars, opsVars, panelVars, cacheVars,
              prefixVars,
              flowVars>>

BranchFrame ==
  UNCHANGED <<bulkVars, syncVars, infoVars, listVars, opsVars, panelVars, cacheVars,
              prefixVars,
              flowVars>>

OpsFrame ==
  UNCHANGED <<bulkVars, syncVars, infoVars, listVars, branchVars, panelVars, cacheVars,
              prefixVars,
              flowVars>>

PanelFrame ==
  UNCHANGED <<bulkVars, syncVars, infoVars, listVars, branchVars, opsVars, cacheVars,
              prefixVars,
              flowVars>>

CacheFrame ==
  UNCHANGED <<bulkVars, syncVars, infoVars, listVars, branchVars, opsVars, panelVars,
              prefixVars,
              flowVars>>

PrefixFrame ==
  UNCHANGED <<bulkVars, syncVars, infoVars, listVars, branchVars, opsVars, panelVars,
              cacheVars,
              flowVars>>

(***************************************************************************)
(* SubmoduleService.getSubmodules: one descriptor per path entry of        *)
(* .gitmodules                                                             *)
(***************************************************************************)
\* a line of the config output: "submodule.<name>.<key> <value>"
ConfigLine(name, key, value) == [name |-> name, key |-> key, value |-> value]

\* the lines the query can print: the path entry of each submodule, and a line of
\* another key that the pattern 'path' also selects (the url of a submodule whose
\* name contains "path")
ConfigLines ==
  {ConfigLine(r, "path", r) : r \in Repos}
    \cup {ConfigLine("libpath", "url", "git@host:libpath.git")}

\* line.match(/submodule\.(.+)\.path\s+(.+)/) (gitCommandService.ts:209)
LineMatches(line) == line.key = "path" /\ line.value # ""

\* the answers of the config query: rejected (no .gitmodules), or some lines
ConfigAnswers == {Rejected} \cup {Answered(ls) : ls \in ListsUpTo(ConfigLines, MaxPaths)}

\* the answers of the resolver's queries in one submodule directory
ListQueries ==
  [gitDir : {Answered(".git")},
   url    : {Answered("git@host:lib.git")},
   branch : {Rejected},
   head   : {Rejected, Answered(FullHash)},
   abbrev : {Answered("main")},
   status : {Rejected, Answered("")},
   track  : {Rejected}]

\* the descriptor pushed when the resolver rejects (gitCommandService.ts:217-230)
UninitializedInfo == [NoInfo EXCEPT !.status = "uninitialized"]

Descriptor(line, info) == [name |-> line.name, path |-> line.value, info |-> info]

\* the body of the loop for a matching line (gitCommandService.ts:214-231)
EmitDescriptor_DropUninitialized(out, line, info) ==
  IF info.threw \/ info.status = "uninitialized" THEN out
  ELSE Append(out, Descriptor(line, info))

EmitDescriptor(out, line, info) ==
  IF info.threw THEN Append(out, Descriptor(line, UninitializedInfo))
  ELSE Append(out, Descriptor(line, info))

\* the catch around the config query and the loop: no .gitmodules file or no
\* submodules, the empty list is returned (gitCommandService.ts:234-238)
getSubmodulesCatch == Returns(<<>>)

ListPcAt(lines, i) == IF i > Len(lines) THEN "returned" ELSE "loop"

\* getSubmodules is called: the config query (gitCommandService.ts:200-206, 234-238)
getSubmodules_config ==
  /\ lPc = "ready"
  /\ lIdx' = 1
  /\ lPc' = IF execGitResolved(lConfig) THEN ListPcAt(lConfig.out, 1) ELSE "returned"
  /\ lThrew' = IF execGitResolved(lConfig) THEN FALSE ELSE getSubmodulesCatch.threw
  /\ UNCHANGED <<lConfig, lAns, lOut>>

\* one line of the output (gitCommandService.ts:208-232)
getSubmodules_line ==
  /\ lPc = "loop"
  /\ LET line == lConfig.out[lIdx] IN
       lOut' = IF LineMatches(line)
               THEN EmitDescriptor(lOut, line, getSubmoduleInfo(lAns[lIdx]))
               ELSE lOut
  /\ lIdx' = lIdx + 1
  /\ lPc' = ListPcAt(lConfig.out, lIdx + 1)
  /\ UNCHANGED <<lConfig, lAns, lThrew>>

ListIdle ==
  /\ lConfig = Rejected
  /\ lAns = [i \in 1..MaxPaths |-> CHOOSE q \in ListQueries : ~q.head.ok /\ ~q.status.ok]
  /\ lPc = "idle"
  /\ lIdx = 1
  /\ lOut = <<>>
  /\ lThrew = FALSE

ListInit ==
  /\ lConfig \in ConfigAnswers
  /\ lAns \in [1..MaxPaths -> ListQueries]
  /\ lPc = "ready"
  /\ lIdx = 1
  /\ lOut = <<>>
  /\ lThrew = FALSE

(***************************************************************************)
(* The branch lister: getBranches of BranchService and of GitOperations    *)
(***************************************************************************)
\* the branch names of the repository, as git sorts them (by byte) and as
\* localeCompare sorts them; one name contains the text HEAD
GitOrder == <<"HEAD-fix", "dev", "main">>

LocaleOrder == <<"dev", "HEAD-fix", "main">>

BranchRefNames == {GitOrder[i] : i \in 1..Len(GitOrder)}

\* trimmed.includes('HEAD') for a branch name (commitService.ts:146)
NameIncludesHEAD(name) == name = "HEAD-fix"

\* a line of the 'git branch -a' output: a local branch, a remote branch
\* (remotes/origin/<name>), the symbolic remotes/origin/HEAD -> origin/<name>, or the
\* '(HEAD detached at <commit>)' line; star marks the checked-out line
BranchLine(star, kind, name) == [star |-> star, kind |-> kind, name |-> name]

\* the lines git prints for a repository: the detached line, the local branches, the
\* symbolic remote HEAD, the remote branches
GitBranchAll(r) ==
  LET loc == SelectSeq(GitOrder, LAMBDA n : n \in r.locals)
      rem == SelectSeq(GitOrder, LAMBDA n : n \in r.remotes)
  IN  (IF r.current = "" THEN <<BranchLine(TRUE, "detached", "")>> ELSE <<>>)
        \o [i \in 1..Len(loc) |-> BranchLine(loc[i] = r.current, "local", loc[i])]
        \o (IF r.originHead THEN <<BranchLine(FALSE, "originHead", "HEAD")>> ELSE <<>>)
        \o [i \in 1..Len(rem) |-> BranchLine(FALSE, "remote", rem[i])]

\* a BranchInfo; hasLocal and hasRemote are true or left undefined (FALSE here)
BranchInfo(name, isRemote, isCurrent, hasLocal, hasRemote) ==
  [name |-> name, isRemote |-> isRemote, isCurrent |-> isCurrent,
   hasLocal |-> hasLocal, hasRemote |-> hasRemote]

\* ---- BranchService.getBranches (commitService.ts:132-200)
\* the first pass skips empty lines and every line containing HEAD
\* (commitService.ts:146-148)
SkipsLine(line) ==
  line.kind \in {"originHead", "detached"} \/ NameIncludesHEAD(line.name)

\* the names the first pass puts into localNames / remoteNames
\* (commitService.ts:150-165)
PassNames(lines, kind) ==
  {lines[i].name : i \in {j \in 1..Len(lines) : ~SkipsLine(lines[j]) /\ lines[j].kind = kind}}

\* currentBranchName: the starred local line (commitService.ts:156-158)
PassCurrent(lines) ==
  LET starred == {i \in 1..Len(lines) :
                    ~SkipsLine(lines[i]) /\ lines[i].star /\ lines[i].kind = "local"}
  IN  IF starred = {} THEN "" ELSE lines[CHOOSE i \in starred : TRUE].name

\* the second pass: one descriptor per name of the union, local preferred
\* (commitService.ts:169-185)
DedupInfo(name, localNames, remoteNames, current) ==
  LET isRemote == name \in remoteNames /\ name \notin localNames IN
  BranchInfo(name, isRemote, name = current,
             isRemote /\ name \in localNames,
             ~isRemote /\ name \in remoteNames)

\* branches.sort: the current branch first, then by localeCompare
\* (commitService.ts:188-192)
SortedNames(names, current) ==
  SelectSeq(LocaleOrder, LAMBDA n : n \in names /\ n = current)
    \o SelectSeq(LocaleOrder, LAMBDA n : n \in names /\ n # current)

branchServiceGetBranches(r, ans) ==
  IF ~ans.list THEN <<>>
  ELSE LET lines == GitBranchAll(r)
           localNames == PassNames(lines, "local")
           remoteNames == PassNames(lines, "remote")
           current == PassCurrent(lines)
           order == SortedNames(localNames \cup remoteNames, current)
       IN  [i \in 1..Len(order) |-> DedupInfo(order[i], localNames, remoteNames, current)]

\* ---- GitOperations.getBranches (gitOperations.ts:252-297)
\* %(refname:short) of a line: origin/<name> for a remote branch
LineIsRemote(line) == line.kind \in {"remote", "originHead"}

\* cleanName: the name without the origin/ prefix (gitOperations.ts:277-278); the
\* detached line keeps its text
LineCleanName(line) == IF line.kind = "detached" THEN "(HEAD detached)" ELSE line.name

\* cleanName === 'HEAD' || name === 'origin/HEAD' (gitOperations.ts:281-283)
SkipsRef(line) == line.kind = "originHead" \/ LineCleanName(line) = "HEAD"

\* rev-parse --abbrev-ref HEAD: the branch, HEAD when detached, '' when rejected
\* (gitOperations.ts:261-266)
AbbrevRef(r, ans) == IF ~ans.abbrev THEN "" ELSE IF r.current = "" THEN "HEAD" ELSE r.current

gitOpsGetBranches(r, ans) ==
  IF ~ans.fetch \/ ~ans.list THEN <<>>
  ELSE LET lines == SelectSeq(GitBranchAll(r), LAMBDA l : ~SkipsRef(l))
           current == AbbrevRef(r, ans)
       IN  [i \in 1..Len(lines) |->
              BranchInfo(LineCleanName(lines[i]), LineIsRemote(lines[i]),
                         LineCleanName(lines[i]) = current, FALSE, FALSE)]

getBranches_BranchService ==
  /\ bPc = "ready"
  /\ bOut' = branchServiceGetBranches(bRepo, bAns)
  /\ bSvc' = "BranchService"
  /\ bPc' = "returned"
  /\ UNCHANGED <<bRepo, bAns>>

getBranches_GitOperations ==
  /\ bPc = "ready"
  /\ bOut' = gitOpsGetBranches(bRepo, bAns)
  /\ bSvc' = "GitOperations"
  /\ bPc' = "returned"
  /\ UNCHANGED <<bRepo, bAns>>

\* the repositories: some local and remote branches, one of the local ones checked
\* out or HEAD detached; the symbolic remote HEAD exists only with remote branches
BranchRepos ==
  {r \in [locals : SUBSET BranchRefNames, remotes : SUBSET BranchRefNames,
          current : BranchRefNames \cup {""}, originHead : BOOLEAN] :
     /\ r.current # "" => r.current \in r.locals
     /\ r.originHead => r.remotes # {}}

BranchAnswers == [fetch : BOOLEAN, abbrev : BOOLEAN, list : BOOLEAN]

BranchIdle ==
  /\ bRepo = [locals |-> {}, remotes |-> {}, current |-> "", originHead |-> FALSE]
  /\ bAns = [fetch |-> FALSE, abbrev |-> FALSE, list |-> FALSE]
  /\ bPc = "idle"
  /\ bSvc = ""
  /\ bOut = <<>>

BranchInit ==
  /\ bRepo \in BranchRepos
  /\ bAns \in BranchAnswers
  /\ bPc = "ready"
  /\ bSvc = ""
  /\ bOut = <<>>

(***************************************************************************)
(* The operations of BranchService and SubmoduleService as sequences of    *)
(* git commands and calls inside try blocks                                *)
(***************************************************************************)
\* how execGit ends (gitCommandService.ts:17-35): it resolves, or rejects with the
\* command's error, or rejects because the command was killed at the timeout
ExecOutcomes == {"ok", "fail", "timeout"}

\* a step of an operation's body: a git command or a call of another operation, and
\* the try block around it: "own" (a try of its own with a catch that goes on),
\* "outer" (the operation's try, whose catch returns the fallback value) or "none"
GitStep(cmd, try) == [kind |-> "git", what |-> cmd, try |-> try]

CallStep(op, try) == [kind |-> "call", what |-> op, try |-> try]

\* a loop over the paths: its body, once per path
RECURSIVE Repeat(_, _)
Repeat(steps, n) == IF n = 0 THEN <<>> ELSE steps \o Repeat(steps, n - 1)

Operations ==
  {"getSubmoduleInfo", "getParentRepoInfo", "getSubmodules", "getBranches",
   "createBranch", "checkoutBranch", "pullChanges", "pushChanges", "deleteBranch",
   "fetchUpdates", "getRecordedCommit", "syncSubmodule", "syncAllSubmodules",
   "createBranchAcrossSubmodules", "deleteBranchAcrossSubmodules"}

OpBody(op) ==
  CASE op = "getSubmoduleInfo" ->      \* gitCommandService.ts:244-335
         <<GitStep("config url", "own"), GitStep("config branch", "own"),
           GitStep("rev-parse HEAD", "outer"), GitStep("rev-parse --abbrev-ref", "own"),
           GitStep("status", "outer"), GitStep("rev-list", "own")>>
    [] op = "getParentRepoInfo" ->     \* gitCommandService.ts:105-195
         <<GitStep("rev-parse --git-dir", "outer"), GitStep("remote get-url", "own"),
           GitStep("rev-parse HEAD", "own"), GitStep("rev-parse --abbrev-ref", "own"),
           GitStep("status", "own"), GitStep("rev-list", "own")>>
    [] op = "getSubmodules" ->         \* gitCommandService.ts:200-239
         <<GitStep("config path", "outer")>>
           \o Repeat(<<CallStep("getSubmoduleInfo", "own")>>, MaxPaths)
    [] op = "getBranches" ->           \* commitService.ts:132-200
         <<GitStep("branch -a", "outer")>>
    [] op = "createBranch" ->          \* commitService.ts:205-232
         <<GitStep("checkout base", "outer"), GitStep("pull", "outer"),
           GitStep("checkout -b", "outer")>>
    [] op = "checkoutBranch" ->        \* commitService.ts:256-266
         <<GitStep("checkout", "outer")>>
    [] op = "pullChanges" ->           \* commitService.ts:271-282
         <<GitStep("rev-parse --abbrev-ref", "outer"), GitStep("pull", "outer")>>
    [] op = "pushChanges" ->           \* commitService.ts:287-298
         <<GitStep("rev-parse --abbrev-ref", "outer"), GitStep("push", "outer")>>
    [] op = "deleteBranch" ->          \* commitService.ts:303-338
         <<GitStep("rev-parse --abbrev-ref", "outer"), GitStep("branch -D", "outer"),
           GitStep("push --delete", "own")>>
    [] op = "fetchUpdates" ->          \* commitService.ts:361-371
         <<GitStep("fetch", "outer")>>
    [] op = "getRecordedCommit" ->     \* gitCommandService.ts:468-480
         <<GitStep("ls-tree", "outer")>>
    [] op = "syncSubmodule" ->         \* gitCommandService.ts:419-430
         <<GitStep("fetch", "outer"), GitStep("checkout", "outer")>>
    [] op = "syncAllSubmodules" ->     \* gitCommandService.ts:436-462
         <<CallStep("getSubmodules", "none")>>
           \o Repeat(<<CallStep("getRecordedCommit", "none"),
                       CallStep("syncSubmodule", "none")>>, MaxPaths)
    [] op = "createBranchAcrossSubmodules" ->   \* commitService.ts:237-251
         Repeat(<<CallStep("createBranch", "none")>>, MaxPaths)
    [] op = "deleteBranchAcrossSubmodules" ->   \* commitService.ts:343-356
         Repeat(<<CallStep("deleteBranch", "none")>>, MaxPaths)

\* what a rejection does at a step, by the try block around it: the catch of a try of
\* its own goes on with the next statement, the operation's catch returns the fallback
\* value, and without a try the rejection leaves the operation
OnReject_OuterRethrows(try) ==
  IF try = "own" THEN "continue" ELSE "propagate"

OnReject(try) ==
  IF try = "own" THEN "continue" ELSE IF try = "outer" THEN "fallback" ELSE "propagate"

Frame(op) == [op |-> op, pos |-> 1]

Top(st) == st[Len(st)]

Pop(st) == SubSeq(st, 1, Len(st) - 1)

CurStep(st) == OpBody(Top(st).op)[Top(st).pos]

AtEnd(st) == Top(st).pos > Len(OpBody(Top(st).op))

Advance(st) == [st EXCEPT ![Len(st)].pos = @ + 1]

\* the called operation returned a value: its caller goes on after the call
Complete(st) == IF st = <<>> THEN st ELSE Advance(st)

\* a rejection at the current step of the top frame: where control is afterwards
RECURSIVE Unwind(_)
Unwind(st) ==
  IF st = <<>> THEN [stack |-> <<>>, threw |-> TRUE]
  ELSE LET act == OnReject(CurStep(st).try) IN
       IF act = "continue" THEN [stack |-> Advance(st), threw |-> FALSE]
       ELSE IF act = "fallback" THEN [stack |-> Complete(Pop(st)), threw |-> FALSE]
       ELSE Unwind(Pop(st))

OpsPcAt(st) == IF st = <<>> THEN "returned" ELSE "running"

\* an operation is called
callOperation(op) ==
  /\ oPc = "ready"
  /\ oStack' = <<Frame(op)>>
  /\ oPc' = "running"
  /\ UNCHANGED <<oThrew, oRejected>>

\* the running operation awaits a git command
op_execGit(outcome) ==
  /\ oPc = "running"
  /\ ~AtEnd(oStack)
  /\ CurStep(oStack).kind = "git"
  /\ IF outcome = "ok"
     THEN /\ oStack' = Advance(oStack)
          /\ UNCHANGED <<oPc, oThrew, oRejected>>
     ELSE LET u == Unwind(oStack) IN
          /\ oStack' = u.stack
          /\ oThrew' = u.threw
          /\ oPc' = OpsPcAt(u.stack)
          /\ oRejected' = oRejected \cup {outcome}

\* the running operation calls another operation
op_call ==
  /\ oPc = "running"
  /\ ~AtEnd(oStack)
  /\ CurStep(oStack).kind = "call"
  /\ oStack' = Append(oStack, Frame(CurStep(oStack).what))
  /\ UNCHANGED <<oPc, oThrew, oRejected>>

\* the running operation reaches its return statement
op_return ==
  /\ oPc = "running"
  /\ AtEnd(oStack)
  /\ oStack' = Complete(Pop(oStack))
  /\ oPc' = OpsPcAt(oStack')
  /\ UNCHANGED <<oThrew, oRejected>>

OpsIdle ==
  /\ oStack = <<>>
  /\ oPc = "idle"
  /\ oThrew = FALSE
  /\ oRejected = {}

OpsInit ==
  /\ oStack = <<>>
  /\ oPc = "ready"
  /\ oThrew = FALSE
  /\ oRejected = {}

(***************************************************************************)
(* The webview panel: every received message starts its handler at once    *)
(***************************************************************************)
\* the invocations of the message callback that can be in progress together: the one
\* of an earlier message and the one of a message received while it runs
Handlers == {"first", "second"}

\* the messages that start a mutating operation (webviewPanel.ts:104-130)
PanelMessage(type, submodules) == [type |-> type, submodules |-> submodules]

PanelMessages ==
  {PanelMessage(t, ps) : t \in {"createBranch", "syncVersions"}, ps \in PathLists \ {<<>>}}
    \cup {PanelMessage(t, <<p>>) : t \in {"checkoutBranch", "pullChanges"}, p \in Repos}

NoMessage == PanelMessage("", <<>>)

\* a git command of a handler: the repository, the command, whether it changes the
\* repository
PanelCmd(path, cmd, mutating) == [path |-> path, cmd |-> cmd, mutating |-> mutating]

\* the commands of the operation a handler runs on one path
\* (gitOperations.ts:302-329, 353-363, 368-379, 467-478, 619-631)
PathCommands(type, p) ==
  CASE type = "createBranch" ->
         <<PanelCmd(p, "checkout base", TRUE), PanelCmd(p, "pull", TRUE),
           PanelCmd(p, "checkout -b", TRUE)>>
    [] type = "checkoutBranch" -> <<PanelCmd(p, "checkout", TRUE)>>
    [] type = "pullChanges" ->
         <<PanelCmd(p, "rev-parse --abbrev-ref", FALSE), PanelCmd(p, "pull", TRUE)>>
    [] type = "syncVersions" ->
         <<PanelCmd(p, "ls-tree", FALSE), PanelCmd(p, "fetch", TRUE),
           PanelCmd(p, "checkout", TRUE)>>
    [] OTHER -> <<>>

\* the commands of a handler, path after path, and the refresh it ends with
\* (part_004:75-108, 227-246, 263-295)
RECURSIVE HandlerCommandsFrom(_, _)
HandlerCommandsFrom(msg, i) ==
  IF i > Len(msg.submodules) THEN <<PanelCmd(".", "refresh", FALSE)>>
  ELSE PathCommands(msg.type, msg.submodules[i]) \o HandlerCommandsFrom(msg, i + 1)

HandlerCommands(msg) == HandlerCommandsFrom(msg, 1)

\* where a handler goes on after its command ended: the next command, or after a
\* rejection the first command of another path (the operation on this path returned)
RECURSIVE SkipPath(_, _, _)
SkipPath(cmds, i, p) ==
  IF i > Len(cmds) \/ cmds[i].path # p THEN i ELSE SkipPath(cmds, i + 1, p)

AfterCommand(cmds, i, ok) == IF ok THEN i + 1 ELSE SkipPath(cmds, i + 1, cmds[i].path)

\* a handler awaits a mutating git command
InMutation(h) ==
  hState[h] = "awaiting" /\ HandlerCommands(hMsg[h])[hPos[h]].mutating

\* the webview posts a message: the callback runs _handleMessage, which runs the
\* handler up to its first await, whatever other handler is still awaiting
\* (webviewPanel.ts:64-70, 91-174)
onDidReceiveMessage(h, msg) ==
  /\ hState[h] = "free"
  /\ h = "second" => hState["first"] # "free"
  /\ hMsg' = [hMsg EXCEPT ![h] = msg]
  /\ hPos' = [hPos EXCEPT ![h] = 1]
  /\ hState' = [hState EXCEPT ![h] = "awaiting"]

\* the git command a handler awaits ends; the handler issues its next command or ends
gitExit(h, ok) ==
  /\ hState[h] = "awaiting"
  /\ LET cmds == HandlerCommands(hMsg[h])
         next == AfterCommand(cmds, hPos[h], ok)
     IN  IF next > Len(cmds)
         THEN /\ hState' = [hState EXCEPT ![h] = "done"]
              /\ UNCHANGED <<hMsg, hPos>>
         ELSE /\ hPos' = [hPos EXCEPT ![h] = next]
              /\ UNCHANGED <<hMsg, hState>>

PanelIdle ==
  /\ hMsg = [h \in Handlers |-> NoMessage]
  /\ hPos = [h \in Handlers |-> 1]
  /\ hState = [h \in Handlers |-> "done"]

PanelInit ==
  /\ hMsg = [h \in Handlers |-> NoMessage]
  /\ hPos = [h \in Handlers |-> 1]
  /\ hState = [h \in Handlers |-> "free"]

(***************************************************************************)
(* The sidebar tree's submodule list and the create-branch command         *)
(***************************************************************************)
\* the repository lists: what 'git config --file .gitmodules' gives, as paths
GitmodulesLists == PathLists

\* a fresh query (gitOps.getSubmodules()) returns what .gitmodules lists now
FreshSubmodules(gitmodules) == gitmodules

\* the list the create-branch command starts from: the tree provider's list, and a
\* query only when that list is empty (createBranchCommand.ts:51-57)
CommandSubmodules(tree, gitmodules) ==
  IF Len(tree) = 0 THEN FreshSubmodules(gitmodules) ELSE tree

\* the parent repository is put first (createBranchCommand.ts:59-63)
WithParentRepo(list) == <<".">> \o list

\* .gitmodules is edited; the file watcher tells the tree to refresh
\* (extension.ts:51-54, submoduleTreeProvider.ts:22-24)
editGitmodules(new) ==
  /\ cPc \in {"watching", "picked"}
  /\ new # cGitmodules
  /\ cGitmodules' = new
  /\ cPending' = TRUE
  /\ UNCHANGED <<cTree, cPicker, cAtPick, cPc>>

\* the editor asks the tree for its children: the list is queried and kept
\* (submoduleTreeProvider.ts:48-63)
getSubmoduleList ==
  /\ cPc \in {"watching", "picked"}
  /\ cTree' = FreshSubmodules(cGitmodules)
  /\ cPending' = FALSE
  /\ UNCHANGED <<cGitmodules, cPicker, cAtPick, cPc>>

\* the user runs submoduleManager.createBranch (createBranchCommand.ts:49-70)
createBranchCommand ==
  /\ cPc \in {"watching", "picked"}
  /\ cPicker' = WithParentRepo(CommandSubmodules(cTree, cGitmodules))
  /\ cAtPick' = cGitmodules
  /\ cPc' = "picked"
  /\ UNCHANGED <<cGitmodules, cTree, cPending>>

CacheIdle ==
  /\ cGitmodules = <<>>
  /\ cTree = <<>>
  /\ cPending = FALSE
  /\ cPicker = <<>>
  /\ cAtPick = <<>>
  /\ cPc = "idle"

\* the extension is activated: the tree provider's list is empty
\* (submoduleTreeProvider.ts:16)
CacheInit ==
  /\ cGitmodules \in GitmodulesLists
  /\ cTree = <<>>
  /\ cPending = FALSE
  /\ cPicker = <<>>
  /\ cAtPick = <<>>
  /\ cPc = "watching"

(***************************************************************************)
(* The branch hierarchy: the prefixes offered for a base branch            *)
(***************************************************************************)
\* a branch name as its leading word, then (if anything follows) the character after
\* the word and the rest: <<"dev">>, <<"feature", "/", "x">>, <<"release", "/", "foo_1.0">>
LeadingWords ==
  {"main", "MAIN", "master", "dev", "Dev", "develop", "feature", "Feature", "task",
   "release", "bugfix"}

NextChars == {"/", "-", "_"}

BaseBranchNames ==
  {<<w>> : w \in LeadingWords}
    \cup {<<w, c, r>> : w \in LeadingWords, c \in NextChars, r \in {"x", "foo_1.0"}}

\* String.prototype.toLowerCase on a leading word
toLowerCase(w) ==
  CASE w = "MAIN" -> "main"
    [] w = "Dev" -> "dev"
    [] w = "Feature" -> "feature"
    [] OTHER -> w

\* lower === word
LowerIs(name, word) == Len(name) = 1 /\ toLowerCase(name[1]) = word

\* lower.startsWith(word + c)
LowerStartsWith(name, word, c) ==
  Len(name) > 1 /\ toLowerCase(name[1]) = word /\ name[2] = c

\* getBaseBranchType of the webview script (commitService.ts:907-913)
webviewGetBaseBranchType(name) ==
  IF LowerIs(name, "main") \/ LowerIs(name, "master") THEN "main"
  ELSE IF LowerIs(name, "dev") \/ LowerStartsWith(name, "dev", "/")
            \/ LowerStartsWith(name, "dev", "-") THEN "dev"
  ELSE IF LowerStartsWith(name, "feature", "/") \/ LowerStartsWith(name, "feature", "-")
  THEN "feature"
  ELSE "main"

\* branchHierarchy of the webview script (commitService.ts:885-890), and the
\* fallback branchHierarchy[branchType] || branchHierarchy['main'] (line 918)
webviewBranchHierarchy(type) ==
  CASE type \in {"main", "master"} -> <<"bugfix", "release", "dev">>
    [] type = "dev" -> <<"feature">>
    [] type = "feature" -> <<"task">>
    [] OTHER -> <<"bugfix", "release", "dev">>

\* getBaseBranchType of the command (createBranchCommand.ts:21-28)
wizardGetBaseBranchType(name) ==
  IF LowerIs(name, "main") \/ LowerIs(name, "master") THEN "main"
  ELSE IF LowerIs(name, "dev") \/ LowerStartsWith(name, "dev", "/")
            \/ LowerStartsWith(name, "dev", "-") THEN "dev"
  ELSE IF LowerStartsWith(name, "feature", "/") \/ LowerStartsWith(name, "feature", "-")
  THEN "feature"
  ELSE IF LowerIs(name, "task") \/ LowerStartsWith(name, "task", "/")
            \/ LowerStartsWith(name, "task", "-") THEN "task"
  ELSE "unknown"

\* branchHierarchy of the command (createBranchCommand.ts:11-16), and the fallback of
\* the prefix step (createBranchCommand.ts:113)
wizardBranchHierarchy(type) ==
  CASE type = "main" -> <<"bugfix", "release", "dev">>
    [] type = "dev" -> <<"feature", "release">>
    [] type = "feature" -> <<"feature", "task">>
    [] type = "task" -> <<"task">>
    [] OTHER -> <<"bugfix", "feature", "task", "release", "dev">>

\* the webview modal fills the prefix select (commitService.ts:915-937)
updatePrefixOptions ==
  /\ pPc = "ready"
  /\ pPrefixes' = webviewBranchHierarchy(webviewGetBaseBranchType(pBase))
  /\ pFlow' = "webview"
  /\ pPc' = "offered"
  /\ UNCHANGED pBase

\* the command's third step lists the prefixes (createBranchCommand.ts:111-118)
wizardPrefixStep ==
  /\ pPc = "ready"
  /\ pPrefixes' = wizardBranchHierarchy(wizardGetBaseBranchType(pBase))
  /\ pFlow' = "wizard"
  /\ pPc' = "offered"
  /\ UNCHANGED pBase

PrefixIdle ==
  /\ pBase = <<"main">>
  /\ pFlow = ""
  /\ pPrefixes = <<>>
  /\ pPc = "idle"

PrefixInit ==
  /\ pBase \in BaseBranchNames
  /\ pFlow = ""
  /\ pPrefixes = <<>>
  /\ pPc = "ready"

(***************************************************************************)
(* SubmoduleService: sync to the recorded commits                          *)
(***************************************************************************)
\* commit hashes that occur
Commits == {"c1", "c2"}

\* the parent repository's own path, which the panel lists beside the submodules
ParentPath == "."

\* the submodule paths of .gitmodules, in file order
Gitmodules == [i \in 1..NumRepos |-> RepoNames[i]]

\* the lists of paths a caller passes to syncAllSubmodules: the selected cards
SyncPathLists == ListsUpTo(Repos \cup {ParentPath}, MaxPaths)

\* what git refuses in a submodule: nothing, the fetch (remote unreachable, submodule not
\* cloned), or the checkout of another commit (commit not on the remote, or local
\* changes that the checkout would overwrite)
Faults == {"none", "fetch", "checkout"}

\* git fetch --all in a submodule
GitFetchAll(s) ==
  IF s.fault = "fetch" THEN GitFail(s, "could not read from remote repository") ELSE GitOk(s)

\* variant of the checkout: a branch is created for the commit (checkout -b), which
\* git refuses when the branch is already there
GitCheckoutCommit_NewBranch(s, target) ==
  IF s.head = target \/ s.fault = "checkout"
  THEN GitFail(s, "a branch of that name already exists")
  ELSE GitOk([s EXCEPT !.head = target])

\* git checkout <commit> in a submodule: leaves HEAD detached at the commit
GitCheckoutCommit(s, target) ==
  IF s.fault = "checkout" /\ s.head # target
  THEN GitFail(s, "checkout: reference is not a tree, or local changes would be overwritten")
  ELSE GitOk([s EXCEPT !.head = target])

\* getSubmodules: one descriptor per path entry of .gitmodules, [] when the file
\* cannot be read (gitCommandService.ts:200-239); only the paths are used here
getSubmodulesPaths(readable) == IF readable THEN Gitmodules ELSE <<>>

\* getRecordedCommit: the hash of `commit <hash>` in the ls-tree output, '' otherwise
getRecordedCommit(rec, path) == rec[path]

\* the filter of syncAllSubmodules' loop (gitCommandService.ts:442): skip the
\* submodule when specific paths are given and it is not among them
SkipSubmodule(requested, path) ==
  Len(requested) > 0 /\ ~\E i \in 1..Len(requested) : requested[i] = path

\* syncSubmodule's results (gitCommandService.ts:425-428)
syncSubmoduleOk(target) == CommandResult(TRUE, "Synced to ", target)

syncSubmoduleCatch(err) == CommandResult(FALSE, "Failed to sync: ", err)

\* the entry of a submodule without a recorded commit (gitCommandService.ts:454-457)
NoRecordedCommit_Skipped(m, path) == m

NoRecordedCommit(m, path) ==
  MapSet(m, path, CommandResult(FALSE, "No recorded commit found for ", path))

\* the loop of syncAllSubmodules moves to the next submodule it does not skip
RECURSIVE NextSubmodule(_, _, _)
NextSubmodule(list, requested, i) ==
  IF i > Len(list) THEN i
  ELSE IF SkipSubmodule(requested, list[i]) THEN NextSubmodule(list, requested, i + 1)
  ELSE i

SyncPcAt(list, i) == IF i > Len(list) THEN "done" ELSE "lsTree"

\* syncAllSubmodules is called (gitCommandService.ts:436-437)
syncAllSubmodules(paths) ==
  /\ sPc = "idle"
  /\ sRun = 0
  /\ sRequested' = paths
  /\ sRun' = 1
  /\ sPc' = "getSubmodules"
  /\ UNCHANGED <<sub, recorded, gitmodulesOk, sList, sIdx, sResults, sLog, sFirst>>

\* const submodules = await this.getSubmodules() (gitCommandService.ts:438)
sync_getSubmodules ==
  /\ sPc = "getSubmodules"
  /\ sList' = getSubmodulesPaths(gitmodulesOk)
  /\ sIdx' = NextSubmodule(sList', sRequested, 1)
  /\ sPc' = SyncPcAt(sList', sIdx')
  /\ UNCHANGED <<sub, recorded, gitmodulesOk, sRequested, sResults, sLog, sRun, sFirst>>

\* const recordedCommit = await this.getRecordedCommit(path), and the else branch
\* (gitCommandService.ts:447-458)
sync_lsTree ==
  /\ sPc = "lsTree"
  /\ IF getRecordedCommit(recorded, sList[sIdx]) # ""
     THEN /\ sPc' = "fetch"
          /\ UNCHANGED <<sIdx, sResults>>
     ELSE /\ sResults' = NoRecordedCommit(sResults, sList[sIdx])
          /\ sIdx' = NextSubmodule(sList, sRequested, sIdx + 1)
          /\ sPc' = SyncPcAt(sList, sIdx')
  /\ UNCHANGED <<sub, recorded, gitmodulesOk, sRequested, sList, sLog, sRun, sFirst>>

\* syncSubmodule: git fetch --all (gitCommandService.ts:423)
sync_fetch ==
  /\ sPc = "fetch"
  /\ LET p == sList[sIdx]
         g == GitFetchAll(sub[p]) IN
     /\ sLog' = Append(sLog, [path |-> p, cmd |-> "fetch", ok |-> g.ok])
     /\ IF execGitResolved(g)
        THEN /\ sPc' = "checkout"
             /\ UNCHANGED <<sIdx, sResults>>
        ELSE /\ sResults' = MapSet(sResults, p, syncSubmoduleCatch(g.err))
             /\ sIdx' = NextSubmodule(sList, sRequested, sIdx + 1)
             /\ sPc' = SyncPcAt(sList, sIdx')
  /\ UNCHANGED <<sub, recorded, gitmodulesOk, sRequested, sList, sRun, sFirst>>

\* syncSubmodule: git checkout <recorded commit>, and results.set
\* (gitCommandService.ts:424-428, 451-452)
sync_checkout ==
  /\ sPc = "checkout"
  /\ LET p == sList[sIdx]
         target == getRecordedCommit(recorded, p)
         g == GitCheckoutCommit(sub[p], target) IN
     /\ sLog' = Append(sLog, [path |-> p, cmd |-> "checkout", ok |-> g.ok])
     /\ sub' = [sub EXCEPT ![p] = g.repo]
     /\ sResults' = MapSet(sResults, p, IF execGitResolved(g) THEN syncSubmoduleOk(target)
                                                              ELSE syncSubmoduleCatch(g.err))
     /\ sIdx' = NextSubmodule(sList, sRequested, sIdx + 1)
     /\ sPc' = SyncPcAt(sList, sIdx')
  /\ UNCHANGED <<recorded, gitmodulesOk, sRequested, sList, sRun, sFirst>>

\* the same call is made a second time, right after the first returned
syncAgain ==
  /\ sPc = "done"
  /\ sRun = 1
  /\ sFirst' = [results |-> sResults, head |-> [p \in Repos |-> sub[p].head]]
  /\ sRun' = 2
  /\ sResults' = <<>>
  /\ sLog' = <<>>
  /\ sList' = <<>>
  /\ sIdx' = 1
  /\ sPc' = "getSubmodules"
  /\ UNCHANGED <<sub, recorded, gitmodulesOk, sRequested>>

NoFirst == [results |-> <<>>, head |-> [p \in Repos |-> ""]]

SyncIdle ==
  /\ sub = [p \in Repos |-> [head |-> "c1", fault |-> "none"]]
  /\ recorded = [p \in Repos |-> ""]
  /\ gitmodulesOk = TRUE
  /\ sRequested = <<>>
  /\ sPc = "idle"
  /\ sList = <<>>
  /\ sIdx = 1
  /\ sResults = <<>>
  /\ sLog = <<>>
  /\ sRun = 0
  /\ sFirst = NoFirst

SyncInit ==
  /\ sub \in [Repos -> [head : Commits, fault : Faults]]
  /\ recorded \in [Repos -> {"", "c2"}]
  /\ gitmodulesOk \in BOOLEAN
  /\ sRequested = <<>>
  /\ sPc = "idle"
  /\ sList = <<>>
  /\ sIdx = 1
  /\ sResults = <<>>
  /\ sLog = <<>>
  /\ sRun = 0
  /\ sFirst = NoFirst

(***************************************************************************)
(* The construction of a branch name.  A text is a sequence of characters; *)
(* the fixed texts of the code ('feature', 'your-branch-name', 'x.x.x')    *)
(* are single elements, which no user input of the bounded alphabet can    *)
(* spell.  Three flows build a name: the webview form (updateBranchPreview *)
(* on every input event, then actions.createBranch on the button), the     *)
(* wizard of registerCreateBranchCommand and the command that              *)
(* registerCommands registers.                                             *)
(***************************************************************************)
\* longest text the user types into a field
MaxTextLen == 4

\* checkouts another handler runs while a deleteBranch is under way
MaxCheckouts == 2

\* the characters the user types: an upper-case letter, a lower-case letter, a digit,
\* a space, a hyphen and a special character
Chars == {"X", "a", "7", " ", "-", "!"}

RECURSIVE TextsUpTo(_)
TextsUpTo(n) ==
  IF n = 0 THEN {<<>>}
  ELSE LET shorter == TextsUpTo(n - 1)
       IN  shorter \cup {Append(t, c) : t \in {s \in shorter : Len(s) = n - 1}, c \in Chars}

Texts == TextsUpTo(MaxTextLen)

\* the ticket ids entered: none, one like ECPT-15474, and one typed with a leading space
TicketIds == {<<>>, <<"X", "-", "7">>, <<" ", "7">>}

TitledPrefixes == {"bugfix", "feature", "task"}

\* the fields of the form that the chosen prefix shows
BranchForm(prefix, ticket, text, product, version) ==
  [prefix |-> prefix, ticket |-> ticket, text |-> text, product |-> product,
   version |-> version]

BranchForms ==
  {BranchForm(p, k, t, <<>>, <<>>) : p \in TitledPrefixes, k \in TicketIds, t \in Texts}
    \cup {BranchForm("dev", <<>>, t, <<>>, <<>>) : t \in Texts}
    \cup {BranchForm("release", <<>>, <<>>, p, v) :
            p \in {<<>>, <<"X">>, <<" ">>}, v \in {<<>>, <<"7">>, <<" ">>}}

\* String.prototype.toLowerCase on a text
strToLowerCase(str) == [i \in 1..Len(str) |-> IF str[i] = "X" THEN "x" ELSE str[i]]

\* str without its leading run of c
RECURSIVE dropLeading(_, _)
dropLeading(str, c) ==
  IF str # <<>> /\ Head(str) = c THEN dropLeading(Tail(str), c) ELSE str

RECURSIVE dropTrailing(_, _)
dropTrailing(str, c) ==
  IF str # <<>> /\ str[Len(str)] = c
    THEN dropTrailing(SubSeq(str, 1, Len(str) - 1), c)
    ELSE str

\* String.prototype.trim
trim(str) == dropTrailing(dropLeading(str, " "), " ")

\* str.replace(/c+/g, by): every maximal run of c becomes one by
RECURSIVE replaceRuns(_, _, _)
replaceRuns(str, c, by) ==
  IF str = <<>> THEN <<>>
  ELSE IF Head(str) = c THEN <<by>> \o replaceRuns(dropLeading(str, c), c, by)
  ELSE <<Head(str)>> \o replaceRuns(Tail(str), c, by)

\* the characters /[^a-z0-9\s-]/ leaves in place
KebabKeeps(ch) == ch \in {"a", "x", "7", " ", "-"}

\* str.replace(/^-|-$/g, ''): one hyphen off the front, one off the end
stripEdgeHyphens(str) ==
  LET a == IF str # <<>> /\ Head(str) = "-" THEN Tail(str) ELSE str
  IN  IF a # <<>> /\ a[Len(a)] = "-" THEN SubSeq(a, 1, Len(a) - 1) ELSE a

toKebabCase_KeepHyphens(str) ==
  replaceRuns(SelectSeq(strToLowerCase(str), KebabKeeps), " ", "-")

toKebabCase(str) ==
  stripEdgeHyphens(
    replaceRuns(
      replaceRuns(SelectSeq(strToLowerCase(str), KebabKeeps), " ", "-"),
      "-", "-"))

\* devName.toLowerCase().replace(/\s+/g, '-')
commandDevName(str) == replaceRuns(strToLowerCase(str), " ", "-")

includes(str, part) == \E i \in 1..Len(str) : str[i] = part

endsWith(str, part) == str # <<>> /\ str[Len(str)] = part

\* the name updateBranchPreview writes into the branchName field
updateBranchPreviewName(form) ==
  IF form.prefix = "release"
    THEN LET productName == trim(form.product)
             version == trim(form.version)
         IN  IF productName # <<>> /\ version # <<>>
               THEN <<"release", "/">> \o productName \o <<"_">> \o version
             ELSE IF productName # <<>>
               THEN <<"release", "/">> \o productName \o <<"_">>
             ELSE <<"release", "/", "ProductName", "_", "x.x.x">>
  ELSE IF form.prefix = "dev"
    THEN LET kebabDevName == toKebabCase(trim(form.text))
         IN  IF kebabDevName # <<>> THEN <<"dev", "/">> \o kebabDevName
             ELSE <<"dev", "/", "your-branch-name">>
  ELSE LET ticketId == trim(form.ticket)
           kebabTitle == toKebabCase(trim(form.text))
           prefixStr == <<form.prefix, "/">>
       IN  IF ticketId # <<>> /\ kebabTitle # <<>>
             THEN prefixStr \o ticketId \o <<"-">> \o kebabTitle
           ELSE IF ticketId # <<>> THEN prefixStr \o ticketId \o <<"-">>
           ELSE IF kebabTitle # <<>> THEN prefixStr \o kebabTitle
           ELSE prefixStr \o <<"your-branch-name">>

\* the validation of actions.createBranch: TRUE when the name is turned down
createBranchInvalid(value) ==
  LET branchName == trim(value)
  IN  \/ branchName = <<>>
      \/ includes(branchName, "your-branch-name")
      \/ endsWith(branchName, "-")
      \/ endsWith(branchName, "_")
      \/ includes(branchName, "x.x.x")

\* the wizard left by an early return (an input box dismissed or left empty)
Cancelled == [cancelled |-> TRUE, name |-> <<>>]

Built(name) == [cancelled |-> FALSE, name |-> name]

\* step 4 of either command-palette flow; the two differ in the part after 'dev/'
wizardBranchName(form, flow) ==
  IF form.prefix = "release"
    THEN IF form.product = <<>> \/ form.version = <<>> THEN Cancelled
         ELSE Built(<<"release", "/">> \o form.product \o <<"_">> \o form.version)
  ELSE IF form.prefix = "dev"
    THEN IF form.text = <<>> THEN Cancelled
         ELSE Built(<<"dev", "/">> \o (IF flow = "command" THEN commandDevName(form.text)
                                       ELSE toKebabCase(form.text)))
  ELSE IF form.text = <<>> THEN Cancelled
       ELSE LET kebabTitle == toKebabCase(form.text)
            IN  Built(IF form.ticket # <<>>
                        THEN <<form.prefix, "/">> \o form.ticket \o <<"-">> \o kebabTitle
                        ELSE <<form.prefix, "/">> \o kebabTitle)

\* an input event of the webview form: the preview and the branchName field are rebuilt
updateBranchPreview(form) ==
  /\ nPc = "ready"
  /\ nFlow' = "webview"
  /\ nForm' = form
  /\ nName' = updateBranchPreviewName(form)
  /\ nPc' = "preview"

\* the Create Branch button of the webview form, with a repository ticked: the message
\* it posts makes the handler call createBranchAcrossSubmodules with the name
actions_createBranch ==
  /\ nPc = "preview"
  /\ nPc' = IF createBranchInvalid(nName) THEN "rejected" ELSE "issued"
  /\ UNCHANGED <<nFlow, nForm, nName>>

\* submoduleManager.createBranch as registerCreateBranchCommand registers it, from the
\* prefix step to the bulk call
wizardCreateBranch(form) ==
  /\ nPc = "ready"
  /\ nFlow' = "wizard"
  /\ nForm' = form
  /\ LET r == wizardBranchName(form, "wizard")
     IN  /\ nName' = r.name
         /\ nPc' = IF r.cancelled THEN "cancelled" ELSE "issued"

\* submoduleManager.createBranch as registerCommands registers it: the same steps with
\* its own dev naming
commandCreateBranch(form) ==
  /\ nPc = "ready"
  /\ nFlow' = "command"
  /\ nForm' = form
  /\ LET r == wizardBranchName(form, "command")
     IN  /\ nName' = r.name
         /\ nPc' = IF r.cancelled THEN "cancelled" ELSE "issued"

NoForm == BranchForm("", <<>>, <<>>, <<>>, <<>>)

NameIdle ==
  /\ nFlow = ""
  /\ nForm = NoForm
  /\ nName = <<>>
  /\ nPc = "idle"

NameInit ==
  /\ nFlow = ""
  /\ nForm = NoForm
  /\ nName = <<>>
  /\ nPc = "ready"

NameFrame == UNCHANGED <<coreVars, pushVars, raceVars, viewVars>>

(***************************************************************************)
(* The 'push to remote' step that follows a bulk creation: the review      *)
(* modal of the webview (handleCreateBranchWithReview, confirmAndPush,     *)
(* handlePushCreatedBranches) and the last step of the wizard.             *)
(***************************************************************************)
\* which commands of one createBranch the environment lets through
CreateEnvs == [checkout : BOOLEAN, pull : BOOLEAN, create : BOOLEAN]

\* createBranch(path, branchName, baseBranch, true) from its first command to its
\* return: the repository it leaves and the success field of its result
createBranchRun(r, branchName, baseBranch, env) ==
  LET based == IF baseBranch # "" THEN GitCheckout(r, baseBranch, env.checkout) ELSE GitOk(r)
      pulled == IF baseBranch # "" /\ execGitResolved(based)
                  THEN GitPull(based.repo, baseBranch, env.pull)
                  ELSE based
      created == IF execGitResolved(pulled)
                   THEN GitCheckoutNew(pulled.repo, branchName, env.create)
                   ELSE pulled
  IN  [repo |-> created.repo, success |-> execGitResolved(created)]

\* pushChanges(path) with no branch argument: the branch 'rev-parse --abbrev-ref HEAD'
\* names is pushed; no push is issued when that query is rejected
pushChanges(path, r, revParseOk) ==
  IF revParseOk THEN <<[path |-> path, branch |-> r.cur]>> ELSE <<>>

\* the pushes issued for the paths from the i-th on
RECURSIVE PushesFrom(_, _, _, _)
PushesFrom(paths, i, repos, revParseOk) ==
  IF i > Len(paths) THEN <<>>
  ELSE pushChanges(paths[i], repos[paths[i]], revParseOk[paths[i]])
         \o PushesFrom(paths, i + 1, repos, revParseOk)

\* successfulPaths of the wizard: the paths whose result has success = true
successfulPaths(resultsOf) ==
  LET picked == SelectSeq(resultsOf, LAMBDA e : e.success)
  IN  [i \in 1..Len(picked) |-> picked[i].path]

\* createBranchAcrossSubmodules as either flow calls it, from the call to the results
createBranchesForReview(flow, paths, branchName, baseBranch) ==
  /\ uPc = "ready"
  /\ \E env \in [Repos -> CreateEnvs] :
       LET run == [p \in Repos |-> createBranchRun(uRepo[p], branchName, baseBranch, env[p])]
       IN  /\ uRepo' = [p \in Repos |->
                          IF \E i \in 1..Len(paths) : paths[i] = p THEN run[p].repo
                          ELSE uRepo[p]]
           /\ uResults' = [i \in 1..Len(paths) |->
                             [path |-> paths[i], success |-> run[paths[i]].success]]
  /\ uFlow' = flow
  /\ uCall' = [submodules |-> paths, branchName |-> branchName]
  /\ uPushed' = <<>>
  /\ uPc' = "created"

\* confirmAndPush with 'push after create' ticked, and the handler of the message it
\* posts: pendingBranchInfo.submodules are the repositories ticked in the form
handlePushCreatedBranches ==
  /\ uPc = "created"
  /\ uFlow = "webview"
  /\ \E revParseOk \in [Repos -> BOOLEAN] :
       uPushed' = PushesFrom(uCall.submodules, 1, uRepo, revParseOk)
  /\ uPc' = "pushed"
  /\ UNCHANGED <<uRepo, uResults, uFlow, uCall>>

\* the wizard's 'Push to Remote' choice, offered when a creation succeeded
wizardPushToRemote ==
  /\ uPc = "created"
  /\ uFlow = "wizard"
  /\ \E i \in 1..Len(uResults) : uResults[i].success
  /\ \E revParseOk \in [Repos -> BOOLEAN] :
       uPushed' = PushesFrom(successfulPaths(uResults), 1, uRepo, revParseOk)
  /\ uPc' = "pushed"
  /\ UNCHANGED <<uRepo, uResults, uFlow, uCall>>

NoPending == [submodules |-> <<>>, branchName |-> ""]

PushIdle ==
  /\ uRepo = [p \in Repos |-> [cur |-> "main", branches |-> {"main"}]]
  /\ uResults = <<>>
  /\ uFlow = ""
  /\ uCall = NoPending
  /\ uPushed = <<>>
  /\ uPc = "idle"

PushInit ==
  /\ uRepo \in [Repos -> InitialRepoStates]
  /\ uResults = <<>>
  /\ uFlow = ""
  /\ uCall = NoPending
  /\ uPushed = <<>>
  /\ uPc = "ready"

PushFrame == UNCHANGED <<coreVars, nameVars, raceVars, viewVars>>

(***************************************************************************)
(* deleteBranch and checkoutBranch called on the same repository by two    *)
(* handlers: each await of a git command is a point where the other        *)
(* handler's command can run.                                              *)
(***************************************************************************)
\* deleteBranch(path, branchName, deleteRemote) is called
deleteBranch(branchName) ==
  /\ rPc = "ready"
  /\ rDelete' = branchName
  /\ rPc' = "revParse"
  /\ UNCHANGED <<rRepo, rRead, rAtIssue, rSuccess, rCheckouts>>

\* deleteBranch: rev-parse --abbrev-ref HEAD exits and the guard is evaluated
deleteBranch_currentBranch ==
  /\ rPc = "revParse"
  /\ \E envOk \in BOOLEAN :
       LET g == GitCurrentBranch(rRepo, envOk) IN
       /\ rRead' = g.out
       /\ IF ~execGitResolved(g)
            THEN rPc' = "returned" /\ rSuccess' = deleteBranchCatch(g.err).value.success
          ELSE IF IsCurrentBranch(g.out, rDelete)
            THEN rPc' = "returned" /\ rSuccess' = deleteBranchRefused.value.success
          ELSE rPc' = "branchD" /\ UNCHANGED rSuccess
  /\ UNCHANGED <<rRepo, rDelete, rAtIssue, rCheckouts>>

\* deleteBranch: git branch -D <name> is issued and exits
deleteBranch_delete ==
  /\ rPc = "branchD"
  /\ \E envOk \in BOOLEAN :
       LET g == GitBranchDelete(rRepo, rDelete, envOk) IN
       /\ rAtIssue' = rRepo.cur
       /\ rRepo' = g.repo
       /\ rSuccess' = IF execGitResolved(g) THEN deleteBranchOk(FALSE).value.success
                      ELSE deleteBranchCatch(g.err).value.success
  /\ rPc' = "returned"
  /\ UNCHANGED <<rDelete, rRead, rCheckouts>>

\* checkoutBranch(path, branchName) called by another handler: git checkout <name>
checkoutBranch(branchName) ==
  /\ rPc \in {"ready", "revParse", "branchD", "returned"}
  /\ rCheckouts < MaxCheckouts
  /\ \E envOk \in BOOLEAN : rRepo' = GitCheckout(rRepo, branchName, envOk).repo
  /\ rCheckouts' = rCheckouts + 1
  /\ UNCHANGED <<rDelete, rPc, rRead, rAtIssue, rSuccess>>

RaceIdle ==
  /\ rRepo = [cur |-> "main", branches |-> {"main"}]
  /\ rDelete = ""
  /\ rPc = "idle"
  /\ rRead = ""
  /\ rAtIssue = ""
  /\ rSuccess = FALSE
  /\ rCheckouts = 0

RaceInit ==
  /\ rRepo \in InitialRepoStates
  /\ rDelete = ""
  /\ rPc = "ready"
  /\ rRead = ""
  /\ rAtIssue = ""
  /\ rSuccess = FALSE
  /\ rCheckouts = 0

RaceFrame == UNCHANGED <<coreVars, nameVars, pushVars, viewVars>>

(***************************************************************************)
(* The life of the webview panel: createOrShow, dispose, and the updates   *)
(* (_update) that the constructor and every refresh start.  An update      *)
(* awaits getSubmodules and then writes what it read into the panel; the   *)
(* repositories can change while it waits.                                 *)
(***************************************************************************)
\* webview panels created during a session
MaxPanels == 2

\* updates started during a session
MaxUpdates == 3

\* changes of the repositories' state by git commands during a session
MaxChanges == 2

\* SubmoduleManagerPanel.currentPanel === undefined
NoPanel == 0

\* nothing has been written into a panel yet
NothingShown == -1

\* variant of the test of createOrShow: a panel is created every time
HasCurrentPanel_Never(current) == FALSE

\* if (SubmoduleManagerPanel.currentPanel)
HasCurrentPanel(current) == current # NoPanel

\* _update is called on a panel: its getSubmodules is started
StartUpdate(updates, panel) ==
  Append(updates, [panel |-> panel, at |-> "querying", seen |-> NothingShown])

\* SubmoduleManagerPanel.createOrShow: a panel is created and its constructor calls
\* _update, or the existing panel is revealed and refreshed (as submoduleManager.refresh
\* does)
createOrShow ==
  /\ vPc = "open"
  /\ Len(vUpdates) < MaxUpdates
  /\ IF HasCurrentPanel(vCurrent)
       THEN /\ vUpdates' = StartUpdate(vUpdates, vCurrent)
            /\ UNCHANGED <<vCurrent, vLive, vCreated>>
       ELSE /\ vCreated < MaxPanels
            /\ vCreated' = vCreated + 1
            /\ vLive' = vLive \cup {vCreated'}
            /\ vCurrent' = vCreated'
            /\ vUpdates' = StartUpdate(vUpdates, vCreated')
  /\ UNCHANGED <<vRepo, vShown, vPc>>

\* _update: the git queries of getSubmodules read the repositories
update_getSubmodules(k) ==
  /\ vUpdates[k].at = "querying"
  /\ vUpdates' = [vUpdates EXCEPT ![k].at = "read", ![k].seen = vRepo]
  /\ UNCHANGED <<vCurrent, vLive, vCreated, vRepo, vShown, vPc>>

\* _update after its await: the html is set or 'updateSubmodules' is posted; on a
\* disposed panel the webview is gone and nothing is shown
update_show(k) ==
  /\ vUpdates[k].at = "read"
  /\ vUpdates' = [vUpdates EXCEPT ![k].at = "done"]
  /\ vShown' = IF vUpdates[k].panel \in vLive
                 THEN [vShown EXCEPT ![vUpdates[k].panel] = vUpdates[k].seen]
                 ELSE vShown
  /\ UNCHANGED <<vCurrent, vLive, vCreated, vRepo, vPc>>

\* the user closes the panel: onDidDispose calls dispose
dispose(panel) ==
  /\ panel \in vLive
  /\ vCurrent' = NoPanel
  /\ vLive' = vLive \ {panel}
  /\ UNCHANGED <<vCreated, vUpdates, vRepo, vShown, vPc>>

\* a git command, of the extension or of the user's shell, changes a repository
gitStateChanges ==
  /\ vPc = "open"
  /\ vRepo < MaxChanges
  /\ vRepo' = vRepo + 1
  /\ UNCHANGED <<vCurrent, vLive, vCreated, vUpdates, vShown, vPc>>

ViewIdle ==
  /\ vCurrent = NoPanel
  /\ vLive = {}
  /\ vCreated = 0
  /\ vUpdates = <<>>
  /\ vRepo = 0
  /\ vShown = [p \in 1..MaxPanels |-> NothingShown]
  /\ vPc = "idle"

ViewInit ==
  /\ vCurrent = NoPanel
  /\ vLive = {}
  /\ vCreated = 0
  /\ vUpdates = <<>>
  /\ vRepo = 0
  /\ vShown = [p \in 1..MaxPanels |-> NothingShown]
  /\ vPc = "open"

ViewFrame == UNCHANGED <<coreVars, nameVars, pushVars, raceVars>>

\* no creation, deletion or panel flow is under way
FlowsIdle == NameIdle /\ PushIdle /\ RaceIdle /\ ViewIdle

BulkIdle ==
  /\ repo = [p \in Repos |-> [cur |-> "main", branches |-> {"main"}]]
  /\ repo0 = repo
  /\ call = NoCall
  /\ pc = "idle"
  /\ idx = 1
  /\ results = <<>>
  /\ cmdLog = <<>>
  /\ curRead = ""

SyncSpecInit ==
  SyncInit /\ BulkIdle /\ InfoIdle /\ ListIdle /\ BranchIdle /\ OpsIdle /\ PanelIdle
    /\ CacheIdle /\ PrefixIdle /\ FlowsIdle

SyncNext ==
  \/ \E paths \in SyncPathLists : syncAllSubmodules(paths) /\ SyncFrame
  \/ sync_getSubmodules /\ SyncFrame
  \/ sync_lsTree /\ SyncFrame
  \/ sync_fetch /\ SyncFrame
  \/ sync_checkout /\ SyncFrame
  \/ syncAgain /\ SyncFrame

\* syncAllSubmodules, run once and then once more
SpecSync == SyncSpecInit /\ [][SyncNext]_vars

BulkSpecInit ==
  BulkInit /\ SyncIdle /\ InfoIdle /\ ListIdle /\ BranchIdle /\ OpsIdle /\ PanelIdle
    /\ CacheIdle /\ PrefixIdle /\ FlowsIdle

BulkNext ==
  \/ \E paths \in PathLists, n \in BranchNames, b \in BranchNames \cup {""}, c \in BOOLEAN :
       createBranchAcrossSubmodules(paths, n, b, c) /\ BulkFrame
  \/ createBranch_checkoutBase /\ BulkFrame
  \/ createBranch_pullBase /\ BulkFrame
  \/ createBranch_create /\ BulkFrame
  \/ \E paths \in PathLists, n \in BranchNames, d \in BOOLEAN :
       deleteBranchAcrossSubmodules(paths, n, d) /\ BulkFrame
  \/ deleteBranch_revParse /\ BulkFrame
  \/ deleteBranch_branchD /\ BulkFrame
  \/ deleteBranch_pushDelete /\ BulkFrame
  \/ bulkReturn /\ BulkFrame

InfoSpecInit ==
  InfoInit /\ BulkIdle /\ SyncIdle /\ ListIdle /\ BranchIdle /\ OpsIdle /\ PanelIdle
    /\ CacheIdle /\ PrefixIdle /\ FlowsIdle

InfoNext ==
  \/ resolve_SubmoduleService /\ InfoFrame
  \/ resolve_GitOperations /\ InfoFrame
  \/ resolve_ParentRepo /\ InfoFrame

ListSpecInit ==
  ListInit /\ BulkIdle /\ SyncIdle /\ InfoIdle /\ BranchIdle /\ OpsIdle /\ PanelIdle
    /\ CacheIdle /\ PrefixIdle /\ FlowsIdle

ListNext ==
  \/ getSubmodules_config /\ ListFrame
  \/ getSubmodules_line /\ ListFrame

\* one enumeration of the submodules, for every answer of the config query
SpecList == ListSpecInit /\ [][ListNext]_vars

BranchSpecInit ==
  BranchInit /\ BulkIdle /\ SyncIdle /\ InfoIdle /\ ListIdle /\ OpsIdle /\ PanelIdle
    /\ CacheIdle /\ PrefixIdle /\ FlowsIdle

BranchNext ==
  \/ getBranches_BranchService /\ BranchFrame
  \/ getBranches_GitOperations /\ BranchFrame

\* one listing of one repository's branches, by either implementation
SpecBranches == BranchSpecInit /\ [][BranchNext]_vars

OpsSpecInit ==
  OpsInit /\ BulkIdle /\ SyncIdle /\ InfoIdle /\ ListIdle /\ BranchIdle /\ PanelIdle
    /\ CacheIdle /\ PrefixIdle /\ FlowsIdle

OpsNext ==
  \/ \E op \in Operations : callOperation(op) /\ OpsFrame
  \/ \E outcome \in ExecOutcomes : op_execGit(outcome) /\ OpsFrame
  \/ op_call /\ OpsFrame
  \/ op_return /\ OpsFrame

\* every operation of the services, under every outcome of its git commands
SpecOps == OpsSpecInit /\ [][OpsNext]_vars

PanelSpecInit ==
  PanelInit /\ BulkIdle /\ SyncIdle /\ InfoIdle /\ ListIdle /\ BranchIdle /\ OpsIdle
    /\ CacheIdle /\ PrefixIdle /\ FlowsIdle

PanelNext ==
  \/ \E h \in Handlers, msg \in PanelMessages : onDidReceiveMessage(h, msg) /\ PanelFrame
  \/ \E h \in Handlers, ok \in BOOLEAN : gitExit(h, ok) /\ PanelFrame

\* the panel receiving messages while earlier handlers are awaiting git
SpecPanel == PanelSpecInit /\ [][PanelNext]_vars

CacheSpecInit ==
  CacheInit /\ BulkIdle /\ SyncIdle /\ InfoIdle /\ ListIdle /\ BranchIdle /\ OpsIdle
    /\ PanelIdle /\ PrefixIdle /\ FlowsIdle

PrefixSpecInit ==
  PrefixInit /\ BulkIdle /\ SyncIdle /\ InfoIdle /\ ListIdle /\ BranchIdle /\ OpsIdle
    /\ PanelIdle /\ CacheIdle /\ FlowsIdle

PrefixNext ==
  \/ updatePrefixOptions /\ PrefixFrame
  \/ wizardPrefixStep /\ PrefixFrame

\* the prefixes either creation flow offers, for every base branch name
SpecPrefix == PrefixSpecInit /\ [][PrefixNext]_vars

CacheNext ==
  \/ \E new \in GitmodulesLists : editGitmodules(new) /\ CacheFrame
  \/ getSubmoduleList /\ CacheFrame
  \/ createBranchCommand /\ CacheFrame

\* the tree's list, edits of .gitmodules and the create-branch command
SpecCache == CacheSpecInit /\ [][CacheNext]_vars

\* one resolution of one repository's state, for every answer of the git queries
SpecInfo == InfoSpecInit /\ [][InfoNext]_vars

\* the bulk branch operations of BranchService, one call at a time
SpecBulk == BulkSpecInit /\ [][BulkNext]_vars

CoreIdle ==
  BulkIdle /\ SyncIdle /\ InfoIdle /\ ListIdle /\ BranchIdle /\ OpsIdle /\ PanelIdle
    /\ CacheIdle /\ PrefixIdle

NameSpecInit == NameInit /\ CoreIdle /\ PushIdle /\ RaceIdle /\ ViewIdle

NameNext ==
  \/ nPc = "ready" /\ \E form \in BranchForms : updateBranchPreview(form) /\ NameFrame
  \/ actions_createBranch /\ NameFrame
  \/ nPc = "ready" /\ \E form \in BranchForms : wizardCreateBranch(form) /\ NameFrame
  \/ nPc = "ready" /\ \E form \in BranchForms : commandCreateBranch(form) /\ NameFrame

\* one branch name built by one of the creation flows, for every input of the form
SpecName == NameSpecInit /\ [][NameNext]_vars

PushSpecInit == PushInit /\ CoreIdle /\ NameIdle /\ RaceIdle /\ ViewIdle

PushNext ==
  \/ /\ uPc = "ready"
     /\ \E flow \in {"webview", "wizard"}, paths \in PathLists \ {<<>>},
           n \in BranchNames, b \in BranchNames \cup {""} :
          createBranchesForReview(flow, paths, n, b) /\ PushFrame
  \/ handlePushCreatedBranches /\ PushFrame
  \/ wizardPushToRemote /\ PushFrame

\* a bulk creation by either flow, followed by its push step
SpecPush == PushSpecInit /\ [][PushNext]_vars

RaceSpecInit == RaceInit /\ CoreIdle /\ NameIdle /\ PushIdle /\ ViewIdle

RaceNext ==
  \/ \E n \in BranchNames : deleteBranch(n) /\ RaceFrame
  \/ deleteBranch_currentBranch /\ RaceFrame
  \/ deleteBranch_delete /\ RaceFrame
  \/ \E n \in BranchNames : checkoutBranch(n) /\ RaceFrame

\* one deleteBranch with the checkouts of another handler in between its commands
SpecRace == RaceSpecInit /\ [][RaceNext]_vars

ViewSpecInit == ViewInit /\ CoreIdle /\ NameIdle /\ PushIdle /\ RaceIdle

ViewNext ==
  \/ createOrShow /\ ViewFrame
  \/ \E k \in 1..Len(vUpdates) : update_getSubmodules(k) /\ ViewFrame
  \/ \E k \in 1..Len(vUpdates) : update_show(k) /\ ViewFrame
  \/ \E p \in 1..MaxPanels : dispose(p) /\ ViewFrame
  \/ gitStateChanges /\ ViewFrame

\* the panel opened, refreshed and closed while the repositories change
SpecView == ViewSpecInit /\ [][ViewNext]_vars

(***************************************************************************)
(* Claims about the bulk branch operations                                 *)
(***************************************************************************)
\* the git commands the running call issued for its i-th path, in order
CmdsOf(i) == SelectSeq(cmdLog, LAMBDA e : e.idx = i)

\* the operation on the i-th path has returned to the loop
Completed(i) == i \in 1..Len(call.paths) /\ i < idx /\ pc # "thrown"

\* the result recorded for the i-th path
ResultOf(i) == MapGet(results, call.paths[i])

\* the single-repository operation on the i-th path failed: a command of createBranch
\* failed, or deleteBranch could not read the branch, refused, or could not delete locally
OpFailed(i) ==
  \/ \E k \in 1..Len(CmdsOf(i)) : ~CmdsOf(i)[k].ok /\ CmdsOf(i)[k].cmd # "push --delete"
  \/ /\ call.op = "delete"
     /\ \A k \in 1..Len(CmdsOf(i)) : CmdsOf(i)[k].cmd = "rev-parse"

\* C1: a bulk create or delete called with K paths returns a map with exactly K
\* entries, one per input path, whatever subset of the per-path operations failed.
C1_OneEntryPerInputPath ==
  pc = "done" =>
    /\ Len(results) = Len(call.paths)
    /\ \A i \in 1..Len(call.paths) :
         Cardinality({j \in 1..Len(results) : results[j].path = call.paths[i]}) = 1
    /\ \A j \in 1..Len(results) : \E i \in 1..Len(call.paths) : call.paths[i] = results[j].path

C1_Witness ==
  /\ pc = "done"
  /\ Len(call.paths) >= 2
  /\ Len(results) = Len(call.paths)
  /\ \E i, j \in 1..Len(results) : results[i].result.success /\ ~results[j].result.success

\* C2: a failure of the single-repository operation on one path never aborts the bulk
\* call: the operation is still attempted on every later path, and the failed path has
\* a result with success = false.
C2_FailureNeverAborts ==
  /\ pc # "thrown"
  /\ \A i \in 1..Len(call.paths) :
       /\ (i < idx) => Len(CmdsOf(i)) >= 1 /\ MapHas(results, call.paths[i])
       /\ (i < idx /\ OpFailed(i)) => ~ResultOf(i).success
  /\ pc = "done" => idx = Len(call.paths) + 1

C2_Witness ==
  /\ pc = "done"
  /\ Len(call.paths) >= 2
  /\ OpFailed(1)
  /\ ~ResultOf(1).success
  /\ Len(CmdsOf(2)) >= 1

\* C3: within one bulk operation the paths are processed one after another in input
\* order: a git command for a path is issued only when the results of all earlier paths
\* (and of no other) are recorded, and the map's keys are in the order of the input.
C3_SequentialInInputOrder ==
  /\ \A k \in 1..Len(cmdLog) :
       /\ cmdLog[k].path = call.paths[cmdLog[k].idx]
       /\ cmdLog[k].recorded = cmdLog[k].idx - 1
       /\ k > 1 => cmdLog[k - 1].idx <= cmdLog[k].idx
  /\ pc \notin {"idle", "thrown"} => MapKeys(results) = SubSeq(call.paths, 1, idx - 1)

C3_Witness ==
  /\ pc = "done"
  /\ Len(call.paths) >= 2
  /\ MapKeys(results) = call.paths
  /\ \E k \in 2..Len(cmdLog) : cmdLog[k - 1].idx = 1 /\ cmdLog[k].idx = 2

\* C4: deleteBranch called with the checked-out branch returns success = false and
\* issues no mutating git command; the repository is unchanged.
C4_DeleteCurrentRefused ==
  \A i \in 1..Len(call.paths) :
    (Completed(i) /\ call.op = "delete" /\ repo0[call.paths[i]].cur = call.branchName) =>
      /\ ~ResultOf(i).success
      /\ \A k \in 1..Len(CmdsOf(i)) : CmdsOf(i)[k].cmd = "rev-parse"
      /\ repo[call.paths[i]] = repo0[call.paths[i]]

C4_Witness ==
  \E i \in 1..Len(call.paths) :
    /\ Completed(i) /\ call.op = "delete"
    /\ repo0[call.paths[i]].cur = call.branchName
    /\ ResultOf(i).text = "Cannot delete the currently checked out branch"
    /\ Len(CmdsOf(i)) = 1

\* C5: createBranch with a base branch checks the base out, then pulls it, then creates
\* the branch; when the checkout or the pull fails no creation command is issued, the
\* repository's branches are as before, and the result is success = false carrying the
\* git error.
C5_BaseFailureAbortsCreation ==
  \A i \in 1..Len(call.paths) :
    (Completed(i) /\ call.op = "create" /\ call.baseBranch # "") =>
      LET c == CmdsOf(i)
          p == call.paths[i]
          prepared == Len(c) >= 2 /\ c[1].ok /\ c[2].ok
      IN  /\ c[1].cmd = "checkout" /\ c[1].arg = call.baseBranch
          /\ Len(c) >= 2 => c[1].ok /\ c[2].cmd = "pull" /\ c[2].arg = call.baseBranch
          /\ Len(c) >= 3 => /\ prepared
                            /\ Len(c) = 3
                            /\ c[3].cmd \in {"checkout -b", "branch"}
                            /\ c[3].arg = call.branchName
          /\ ~prepared =>
               /\ \A k \in 1..Len(c) : c[k].cmd \notin {"checkout -b", "branch"}
               /\ repo[p].branches = repo0[p].branches
               /\ ~ResultOf(i).success
               /\ ResultOf(i).text = "Failed to create branch: "
               /\ ResultOf(i).detail = c[Len(c)].err
               /\ ResultOf(i).detail # ""

C5_Witness ==
  \E i \in 1..Len(call.paths) :
    /\ Completed(i) /\ call.op = "create" /\ call.baseBranch # ""
    /\ Len(CmdsOf(i)) = 2
    /\ CmdsOf(i)[1].ok
    /\ ~CmdsOf(i)[2].ok
    /\ call.branchName \notin repo[call.paths[i]].branches
    /\ ~ResultOf(i).success

\* C6: deleteBranch with deleteRemote: when the local deletion succeeds and the remote
\* delete push fails, the result is success = true, its message carries the remote
\* failure detail, and the local branch stays deleted.
C6_RemoteFailureIsPartialSuccess ==
  \A i \in 1..Len(call.paths) :
    LET c == CmdsOf(i) IN
    (/\ Completed(i) /\ call.op = "delete" /\ call.deleteRemote
     /\ Len(c) = 3 /\ c[2].cmd = "branch -D" /\ c[2].ok
     /\ c[3].cmd = "push --delete" /\ ~c[3].ok) =>
      /\ ResultOf(i).success
      /\ ResultOf(i).detail = c[3].err
      /\ ResultOf(i).detail # ""
      /\ call.branchName \notin repo[call.paths[i]].branches

C6_Witness ==
  \E i \in 1..Len(call.paths) :
    /\ Completed(i) /\ call.op = "delete" /\ call.deleteRemote
    /\ Len(CmdsOf(i)) = 3
    /\ ~CmdsOf(i)[3].ok
    /\ ResultOf(i).success
    /\ call.branchName \in repo0[call.paths[i]].branches
    /\ call.branchName \notin repo[call.paths[i]].branches

(***************************************************************************)
(* Claims about the commit-pinning synchronizer                            *)
(***************************************************************************)
\* the set of the elements of a sequence
Range(q) == {q[i] : i \in 1..Len(q)}

\* C7: syncAllSubmodules called with a non-empty list of requested paths returns a map
\* with exactly one entry per requested path: none omitted, no other path in it.
C7_OneEntryPerRequestedPath ==
  (sPc = "done" /\ Len(sRequested) > 0) =>
    /\ Range(MapKeys(sResults)) = Range(sRequested)
    /\ Len(sResults) = Len(sRequested)

\* C8: every target submodule whose recorded commit cannot be resolved has a result
\* with success = false and a 'no recorded commit found' message; it is not skipped,
\* and no fetch or checkout is issued in it.
C8_NoRecordedCommitIsNamedFailure ==
  sPc = "done" =>
    \A p \in Range(sList) :
      (~SkipSubmodule(sRequested, p) /\ getRecordedCommit(recorded, p) = "") =>
        /\ MapHas(sResults, p)
        /\ ~MapGet(sResults, p).success
        /\ MapGet(sResults, p).text = "No recorded commit found for "
        /\ MapGet(sResults, p).detail = p
        /\ \A k \in 1..Len(sLog) : sLog[k].path # p

C8_Witness ==
  /\ sPc = "done"
  /\ \E p, q \in Range(sList) :
       /\ recorded[p] = ""
       /\ MapHas(sResults, p)
       /\ MapGet(sResults, p).text = "No recorded commit found for "
       /\ MapHas(sResults, q)
       /\ MapGet(sResults, q).success

C10_NoHeadIsUninitialized ==
  (iPc = "returned" /\ iSvc \in {"SubmoduleService", "GitOperations"} /\ ~iq.head.ok) =>
    /\ ~iOut.threw
    /\ iOut.status = "uninitialized"

C10_Witness ==
  /\ iPc = "returned"
  /\ iSvc = "SubmoduleService"
  /\ ~iq.head.ok
  /\ iq.abbrev.ok
  /\ iq.status.ok
  /\ iOut.status = "uninitialized"

\* C11: every state the status resolver returns with status = uninitialized has an
\* empty currentCommit and currentBranch, hasChanges = false and ahead = behind = 0,
\* whichever of the git queries succeed or fail.
C11_UninitializedIsEmpty ==
  (iPc = "returned" /\ ~iOut.isNull /\ iOut.status = "uninitialized") =>
    /\ iOut.currentCommit = <<>>
    /\ iOut.currentBranch = ""
    /\ ~iOut.hasChanges
    /\ iOut.ahead = 0
    /\ iOut.behind = 0

\* C12: every state the status resolver produces, for a submodule or for the parent
\* repository, with status = detached has currentBranch = "".
C12_DetachedHasNoBranchName ==
  (iPc = "returned" /\ ~iOut.isNull /\ iOut.status = "detached") =>
    iOut.currentBranch = ""

\* HEAD is detached: the symbolic name is literally HEAD, or cannot be read
HeadDetached(q) == ~q.abbrev.ok \/ q.abbrev.out = "HEAD"

ResolverOf(svc, q) ==
  IF svc = "SubmoduleService" THEN getSubmoduleInfo(q)
  ELSE IF svc = "GitOperations" THEN gitOpsGetSubmoduleInfo(q)
  ELSE getParentRepoInfo(q)

\* C14: when the comparison against origin/<branch> fails or HEAD is detached,
\* ahead = behind = 0 and the commit, branch, hasChanges and status resolved by the
\* earlier steps are returned as they were: the result is the one of a resolution
\* whose comparison was rejected, whatever the comparison would have answered.
C14_NoTrackingIsZeroZero ==
  (iPc = "returned" /\ ~iOut.isNull /\ iq.head.ok /\ iq.status.ok
     /\ (~iq.track.ok \/ HeadDetached(iq))) =>
    /\ ~iOut.threw
    /\ iOut.ahead = 0
    /\ iOut.behind = 0
    /\ iOut.currentCommit = substring(iq.head.out, 0, ShortCommitLen)
    /\ iOut.hasChanges = (iq.status.out # "")
    /\ iOut.status \in {"modified", "detached", "clean"}
    /\ iOut = ResolverOf(iSvc, [iq EXCEPT !.track = Rejected])

C14_Witness ==
  /\ iPc = "returned"
  /\ iSvc = "SubmoduleService"
  /\ iq.head.ok
  /\ iq.abbrev = Answered("main")
  /\ iq.status = Answered("")
  /\ ~iq.track.ok
  /\ iOut.currentBranch = "main"
  /\ iOut.status = "clean"
  /\ iOut.ahead = 0
  /\ iOut.behind = 0

(***************************************************************************)
(* Claims about the enumeration                                            *)
(***************************************************************************)
\* the path entries of the config output, in file order
PathEntries == IF lConfig.ok THEN SelectSeq(lConfig.out, LineMatches) ELSE <<>>

\* the positions of the matching lines among the first n lines
EntryNo(n) == Len(SelectSeq(SubSeq(lConfig.out, 1, n), LineMatches))

Named(name) == {k \in 1..Len(bOut) : bOut[k].name = name}

\* the 'git branch -a' output was read (every command of the lister resolved)
Listed == bAns.list /\ (bSvc = "GitOperations" => bAns.fetch)

\* C16: for every branch name that is both a local and a remote (origin) branch in the
\* 'git branch -a' output, getBranches emits exactly one descriptor with that name,
\* classified local; no two descriptors of a result share a name.
C16_OneLocalDescriptorPerSharedName ==
  (bPc = "returned" /\ Listed) =>
    /\ \A n \in bRepo.locals \cap bRepo.remotes :
         /\ Cardinality(Named(n)) = 1
         /\ \A k \in Named(n) : ~bOut[k].isRemote
    /\ \A j, k \in 1..Len(bOut) : bOut[j].name = bOut[k].name => j = k

(***************************************************************************)
(* Claims about the operations' failure handling                           *)
(***************************************************************************)
\* C17: no operation of the core throws to its caller: for every combination of
\* success, failure and timeout of the git commands it issues, it returns a value.
C17_NoOperationThrows ==
  /\ ~oThrew
  /\ oPc = "returned" => oStack = <<>>

C17_Witness ==
  /\ oPc = "running"
  /\ Len(oStack) = 2
  /\ oStack[1].op = "syncAllSubmodules"
  /\ oStack[2].op = "syncSubmodule"
  /\ oRejected = {"fail", "timeout"}
  /\ ~oThrew

(***************************************************************************)
(* Claims about the panel's handlers                                       *)
(***************************************************************************)
\* C18: at any time at most one mutating git operation started by the extension is in
\* progress across all repositories, also when a second action is triggered while an
\* earlier bulk operation is running.
C18_OneMutationAtATime ==
  Cardinality({h \in Handlers : InMutation(h)}) <= 1

(***************************************************************************)
(* Claims about cached repository lists                                    *)
(***************************************************************************)
\* C19: every repository list the extension acts on comes from a fresh git query made
\* for that action: the create-branch command's picker offers the parent repository
\* and exactly the submodules .gitmodules lists when the command runs.
C19_PickerListIsFresh ==
  cPc = "picked" => cPicker = WithParentRepo(FreshSubmodules(cAtPick))

(***************************************************************************)
(* Claims about the branch hierarchy                                       *)
(***************************************************************************)
\* the category of a base branch name, as the hierarchy table is stated
BaseCategory(name) ==
  IF Len(name) = 1 /\ toLowerCase(name[1]) \in {"main", "master"} THEN "main"
  ELSE IF toLowerCase(name[1]) = "dev" /\ (Len(name) = 1 \/ name[2] \in {"/", "-"})
  THEN "dev"
  ELSE IF toLowerCase(name[1]) = "feature" /\ Len(name) > 1 /\ name[2] \in {"/", "-"}
  THEN "feature"
  ELSE "other"

LegalPrefixes(category) ==
  CASE category = "dev" -> {"feature"}
    [] category = "feature" -> {"task"}
    [] OTHER -> {"bugfix", "release", "dev"}

\* C20: for every base-branch name the prefixes offered are the hierarchy-table entry
\* of its category (main/master: bugfix, release, dev; dev, dev/*, dev-*: feature;
\* feature/*, feature-*: task; any other name: the main set), in every creation flow.
C20_PrefixesFollowHierarchy ==
  pPc = "offered" =>
    {pPrefixes[i] : i \in 1..Len(pPrefixes)} = LegalPrefixes(BaseCategory(pBase))

(***************************************************************************)
(* Claims about the construction of branch names                           *)
(***************************************************************************)
\* the words of a text: its maximal runs of characters other than space and hyphen
RECURSIVE WordsOf(_)
WordsOf(str) ==
  IF str = <<>> THEN <<>>
  ELSE IF Head(str) \in {" ", "-"} THEN WordsOf(Tail(str))
  ELSE LET n == CHOOSE k \in 1..Len(str) :
                  /\ \A i \in 1..k : str[i] \notin {" ", "-"}
                  /\ (k = Len(str) \/ str[k + 1] \in {" ", "-"})
       IN  <<SubSeq(str, 1, n)>> \o WordsOf(SubSeq(str, n + 1, Len(str)))

RECURSIVE JoinWords(_)
JoinWords(ws) ==
  IF ws = <<>> THEN <<>>
  ELSE IF Len(ws) = 1 THEN ws[1]
  ELSE ws[1] \o <<"-">> \o JoinWords(Tail(ws))

\* kebab-case as the naming rules word it: lower-case, the characters outside
\* [a-z0-9], space and hyphen dropped, the words joined by single hyphens
KebabCase(str) == JoinWords(WordsOf(SelectSeq(strToLowerCase(str), KebabKeeps)))

\* the mandatory part of the form is filled
MandatoryFilled(form) ==
  IF form.prefix = "release"
    THEN form.product # <<>> /\ form.version # <<>>
    ELSE KebabCase(form.text) # <<>>

\* C21: no creation flow issues the bulk creation call with a name whose mandatory
\* part is unfilled: a bugfix/feature/task name whose kebab-cased title is empty, a
\* dev name whose kebab-cased name is empty, a release name lacking product or version
C21_UnfilledNameNeverIssued ==
  nPc = "issued" => MandatoryFilled(nForm)

IsKebab(str) ==
  /\ \A i \in 1..Len(str) : str[i] \in {"a", "x", "7", "-"}
  /\ \A i \in 1..(Len(str) - 1) : ~(str[i] = "-" /\ str[i + 1] = "-")
  /\ str # <<>> => (Head(str) # "-" /\ str[Len(str)] # "-")

\* C23: for the dev prefix every flow issues 'dev/' followed by kebab-case(name): the
\* part after 'dev/' is lower-case, only [a-z0-9-], without repeated, leading or
\* trailing hyphens
C23_DevNameIsKebab ==
  (nPc = "issued" /\ nForm.prefix = "dev")
  => /\ SubSeq(nName, 1, 2) = <<"dev", "/">>
     /\ SubSeq(nName, 3, Len(nName)) = KebabCase(nForm.text)
     /\ IsKebab(SubSeq(nName, 3, Len(nName)))

(***************************************************************************)
(* Claims about a failed creation                                          *)
(***************************************************************************)
\* C24: when createBranch returns success = false, the repository's checked-out
\* branch is the one it had before the call
C24_FailedCreateKeepsCheckedOutBranch ==
  \A i \in 1..Len(call.paths) :
    (Completed(i) /\ call.op = "create" /\ ~ResultOf(i).success) =>
      repo[call.paths[i]].cur = repo0[call.paths[i]].cur

(***************************************************************************)
(* Claims about the push step                                              *)
(***************************************************************************)
\* C25: the push step that follows a bulk creation issues a push only for the
\* repositories in which the creation succeeded, and pushes the branch just created,
\* in the webview review flow and in the wizard
C25_PushOnlyCreatedBranches ==
  uPc = "pushed" =>
    \A k \in 1..Len(uPushed) :
      /\ \E i \in 1..Len(uResults) :
           uResults[i].path = uPushed[k].path /\ uResults[i].success
      /\ uPushed[k].branch = uCall.branchName

(***************************************************************************)
(* Claims about deleteBranch                                               *)
(***************************************************************************)
\* C26: under any interleaving with a checkoutBranch on the same repository,
\* deleteBranch never issues 'git branch -D name' while name is the checked-out branch
C26_NeverDeletesCheckedOutBranch ==
  rAtIssue # "" => rAtIssue # rDelete

\* C27: deleteBranch attempts 'push origin --delete' only when deleteRemote is true and
\* 'branch -D' has succeeded, and then it does; when the local deletion fails (the
\* branch exists only on the remote, say) no remote deletion is attempted and the
\* result is success = false
C27_RemoteDeleteOnlyAfterLocal ==
  \A i \in 1..Len(call.paths) :
    (Completed(i) /\ call.op = "delete") =>
      LET c == CmdsOf(i)
          localOk == \E k \in 1..Len(c) : c[k].cmd = "branch -D" /\ c[k].ok
          localFailed == \E k \in 1..Len(c) : c[k].cmd = "branch -D" /\ ~c[k].ok
          remote == {k \in 1..Len(c) : c[k].cmd = "push --delete"}
      IN  /\ \A k \in remote :
               /\ call.deleteRemote
               /\ k > 1 /\ c[k - 1].cmd = "branch -D" /\ c[k - 1].ok
               /\ c[k].arg = call.branchName
          /\ (call.deleteRemote /\ localOk) => Cardinality(remote) = 1
          /\ localFailed => (remote = {} /\ ~ResultOf(i).success)

\* a branch that is not among the local branches was to be deleted with its remote
C27_Witness ==
  \E i \in 1..Len(call.paths) :
    /\ Completed(i) /\ call.op = "delete" /\ call.deleteRemote
    /\ call.branchName \notin repo0[call.paths[i]].branches
    /\ Len(CmdsOf(i)) = 2
    /\ CmdsOf(i)[2].cmd = "branch -D"
    /\ ~CmdsOf(i)[2].ok
    /\ ~ResultOf(i).success

(***************************************************************************)
(* Claims about the webview panel                                          *)
(***************************************************************************)
\* the updates of a panel, in the order they started
UpdatesOf(panel) == SelectSeq(vUpdates, LAMBDA u : u.panel = panel)

\* C28: when refreshes of a panel overlapped and all have completed, the panel shows
\* the data read by the refresh that started last
C28_LastStartedRefreshWins ==
  \A p \in vLive :
    LET ups == UpdatesOf(p) IN
    (Len(ups) >= 2 /\ \A k \in 1..Len(ups) : ups[k].at = "done") =>
      vShown[p] = ups[Len(ups)].seen

\* C29: at most one webview panel is live, and it is the one currentPanel names: a
\* panel is created only while currentPanel is undefined, and dispose leaves
\* currentPanel undefined
C29_AtMostOneLivePanel ==
  /\ Cardinality(vLive) <= 1
  /\ vLive = IF vCurrent = NoPanel THEN {} ELSE {vCurrent}

\* a second panel was created after the first was disposed, and then shown again
C29_Witness ==
  /\ vCreated = 2
  /\ vLive = {2}
  /\ vCurrent = 2
  /\ Len(UpdatesOf(2)) = 2

(***************************************************************************)
(* Claims about the completeness of the branch list                        *)
(***************************************************************************)
\* C30: every branch 'git branch -a' lists, other than the symbolic HEAD reference,
\* appears in the lister's result exactly once, a branch whose name contains the text
\* HEAD included; and at most one descriptor of a result has isCurrent = true
C30_EveryBranchListedOnce ==
  (bPc = "returned" /\ Listed) =>
    /\ \A n \in bRepo.locals \cup bRepo.remotes : Cardinality(Named(n)) = 1
    /\ Cardinality({k \in 1..Len(bOut) : bOut[k].isCurrent}) <= 1
====
